---- MODULE Spec2Model ----
(***************************************************************************)
(* Rule execution engine of the data-quality backend:                      *)
(*   app/core/data_quality/csv_validator.py   (CSVValidator)               *)
(*   app/core/data_quality/json_validator.py  (JSONValidator)              *)
(*   app/core/data_quality/base_validator.py  (result cleaning)            *)
(*   app/api/v1/endpoints/data_validation.py  (validate_data report)       *)
(*   app/core/data_quality/validator_factory.py, file_loader.py            *)
(*                                                                         *)
(* A dataset has one data column "a".  A cell is a scalar (1, 2 or NaN)    *)
(* or, in JSON data only, a list of scalars.  validate_rules is the loop   *)
(* over the rule list; one action is one iteration of the loop body, with  *)
(* the Python locals that survive from one iteration to the next           *)
(* (exp_type, kwargs, validation_result) kept in `loc`.                    *)
(*                                                                         *)
(* The expectation library and pandas are outside the repository.  They    *)
(* are modelled by their documented behaviour at the call sites:           *)
(*   - a column-map expectation reports element_count, unexpected_count    *)
(*     and (except for the null checks) missing_count, plus the partial    *)
(*     index list in the default SUMMARY format, and the full index list   *)
(*     keyed by the index column in COMPLETE format;                       *)
(*   - a table-level expectation reports only an observed value;           *)
(*   - a column absent from the batch is either raised or reported as a    *)
(*     result without counts, depending on catch_exceptions (gxCatches);   *)
(*   - DataFrame.explode turns an empty list into one NaN row;             *)
(*   - DataFrame.fillna(None) raises ValueError;                           *)
(*   - DataFrame.to_dict(orient="records") returns native values, NaN      *)
(*     staying a float NaN.                                                *)
(*   - json.dumps writes NaN and Infinity (allow_nan is on by default).    *)
(*                                                                         *)
(* The endpoints read and write Dataset.validations, last_validated_at and  *)
(* columns; they are modelled as the columns the endpoints use.            *)
(*                                                                         *)
(* Spec is validate_data around validate_rules.  Functions studied on      *)
(* their own have a specification each, over inputs drawn from small sets: *)
(* CleanSpec (_clean_validation_result), AggSpec (the report, over result  *)
(* lists whose counts differ from rule to rule), FactorySpec               *)
(* (create_validator) and ExtractSpec (_extract_failed_records_sample).    *)
(*                                                                         *)
(* The tables are in `db`, with a clock that ticks at every commit.        *)
(* RulesSpec is the rules endpoints (app/api/v1/endpoints/rules.py),       *)
(* SuggestSpec the suggested rules (app/core/rule_generator.py), CacheSpec *)
(* validate_data between changes of the rules, RetrySpec one call of       *)
(* with_retries_async, and DsSpec two datasets requests                    *)
(* (app/api/v1/endpoints/datasets.py) interleaved at their awaits.         *)
(***************************************************************************)
EXTENDS Integers, Sequences, FiniteSets, TLC

VARIABLES validator, df, gxCatches, rules, i, loc, results, pc, exc, response,
          call, ret, dataset, db, slack

vars == <<validator, df, gxCatches, rules, i, loc, results, pc, exc, response, call, ret, dataset,
          db, slack>>

\* ------------------------------------------------------------------ bounds
MaxRules == 2
MaxRecords == 2

\* ------------------------------------------------------------ program data
NaN == 0
SampleLimit == 5

SeqsUpTo(S, n) == UNION {[1..k -> S] : k \in 0..n}

ScalarCell(v) == [isList |-> FALSE, elems |-> <<v>>]
ListCell(s) == [isList |-> TRUE, elems |-> s]

Scalars == {NaN, 1, 2}
ScalarCells == {ScalarCell(v) : v \in Scalars}
ListCells == {ListCell(s) : s \in {<<>>, <<2, 2>>, <<1, 2>>}}

CSVTables == SeqsUpTo(ScalarCells, MaxRecords)
JSONTables == SeqsUpTo(ScalarCells \cup ListCells, MaxRecords)

IsNull(c) == ~c.isList /\ c.elems[1] = NaN

\* self.df.columns: pd.read_csv keeps the header of an empty file, while
\* pd.json_normalize([]) has no columns at all.
DfColumns(v, d) == IF v = "json" /\ d = <<>> THEN <<>> ELSE <<"a">>

InSeq(x, s) == \E k \in 1..Len(s) : s[k] = x

\* the whole list, where the code takes the first n
TakeAll(s, n) == s

\* s[:n]
Take(s, n) == IF Len(s) <= n THEN s ELSE SubSeq(s, 1, n)

RECURSIVE SelectIdx(_, _)
\* the positions k (1-based) of the boolean mask, from k on, that are TRUE
SelectIdx(mask, k) ==
    IF k > Len(mask) THEN <<>>
    ELSE IF mask[k] THEN <<k>> \o SelectIdx(mask, k + 1)
    ELSE SelectIdx(mask, k + 1)

\* ------------------------------------------------------------------ kwargs
StrVal(n) == [isList |-> FALSE, names |-> <<n>>]
ListVal(ns) == [isList |-> TRUE, names |-> ns]

NoKwargs == [cols |-> <<>>, other |-> "unbound"]
\* kwargs = None
KwargsNone == [cols |-> <<>>, other |-> "None"]

ColumnParams == <<"column", "columns", "column_A", "column_B", "column_list">>

HasKey(kwargs, p) == p \in DOMAIN kwargs.cols

\* _extract_columns_from_kwargs, first loop: the names under the known keys,
\* a string as one name, a list expanded.
RECURSIVE ParamNames(_, _)
ParamNames(kwargs, k) ==
    IF k > Len(ColumnParams) THEN <<>>
    ELSE (IF HasKey(kwargs, ColumnParams[k])
          THEN kwargs.cols[ColumnParams[k]].names ELSE <<>>)
         \o ParamNames(kwargs, k + 1)

\* second block: "column" is appended again, else "columns" is
SpecialNames(kwargs) ==
    IF HasKey(kwargs, "column") THEN kwargs.cols["column"].names
    ELSE IF HasKey(kwargs, "columns") THEN kwargs.cols["columns"].names
    ELSE <<>>

RECURSIVE DedupFrom(_, _, _)
DedupFrom(s, k, seen) ==
    IF k > Len(s) THEN <<>>
    ELSE IF s[k] \in seen THEN DedupFrom(s, k + 1, seen)
    ELSE <<s[k]>> \o DedupFrom(s, k + 1, seen \cup {s[k]})

Dedup(s) == DedupFrom(s, 1, {})

ExtractColumnsFromKwargs(kwargs) ==
    Dedup(ParamNames(kwargs, 1) \o SpecialNames(kwargs))

\* ------------------------------------------------------------------- rules
InSet == "expect_column_values_to_be_in_set"
NotNull == "expect_column_values_to_not_be_null"
RowCount == "expect_table_row_count_to_equal"
ColList == "expect_table_columns_to_match_ordered_list"
Bogus == "expect_bogus_check"

\* getattr(gx.expectations, exp_cls_name) succeeds for these
Supported == {InSet, NotNull, RowCount, ColList}

Rule(shape, name, exp_type, cols, other) ==
    [shape |-> shape, name |-> name, natural_language_rule |-> name,
     exp_type |-> exp_type, kwargs |-> [cols |-> cols, other |-> other]]

RInSetA == Rule("ok", "a_in_set", InSet, [column |-> StrVal("a")], "value_set=[1]")
RNotNullA == Rule("ok", "a_not_null", NotNull, [column |-> StrVal("a")], "")
RInSetZZ == Rule("ok", "zz_in_set", InSet, [column |-> StrVal("zz")], "value_set=[1]")
RRowCount == Rule("ok", "one_row", RowCount, <<>>, "value=1")
RColList ==
    Rule("ok", "col_order", ColList, [column_list |-> ListVal(<<"zz", "a", "zz">>)], "")
RBogus == Rule("ok", "bogus", Bogus, [column |-> StrVal("a")], "")
\* a rule dict without 'great_expectations_rule' (or without its
\* 'expectation_type')
RNoGer == Rule("no_ger", "no_ger", "", <<>>, "")

RuleSet == {RInSetA, RNotNullA, RInSetZZ, RRowCount, RColList, RBogus, RNoGer}

\* ------------------------------------------------- the expectation library
\* the value_set of the in-set rules is [1]
Unexpected(exp_type, v) ==
    CASE exp_type = InSet -> v # NaN /\ v # 1
      [] exp_type = NotNull -> v = NaN
      [] OTHER -> FALSE

Missing(exp_type, v) == exp_type = InSet /\ v = NaN

NoVR ==
    [success |-> FALSE, keys |-> {}, notLists |-> {}, element_count |-> 0,
     unexpected_count |-> 0,
     missing_count |-> 0, unexpected_index_list |-> <<>>,
     partial_unexpected_index_list |-> <<>>, unexpected_values |-> <<>>,
     partial_unexpected_values |-> <<>>]

IntItem(n) == [isDict |-> FALSE, key |-> "", idx |-> n]
DictItem(key, n) == [isDict |-> TRUE, key |-> key, idx |-> n]

\* result.get(key, default)
Get(vr, key, default) == IF key \in vr.keys THEN vr[key] ELSE default

\* the table handed to the library, one row per evaluated value
Frame(d) == [k \in 1..Len(d) |-> [rid |-> k - 1, v |-> d[k].elems[1]]]

RECURSIVE ExplodeFrom(_, _)
\* df.explode(column): one row per list element, an empty list is one NaN
\* row, a scalar passes through; each row keeps its __record_id__
ExplodeFrom(d, k) ==
    IF k > Len(d) THEN <<>>
    ELSE (IF d[k].isList /\ d[k].elems = <<>>
          THEN <<[rid |-> k - 1, v |-> NaN]>>
          ELSE [j \in 1..Len(d[k].elems) |-> [rid |-> k - 1, v |-> d[k].elems[j]]])
         \o ExplodeFrom(d, k + 1)

Explode(d) == ExplodeFrom(d, 1)

\* batch.validate(expectation) with a present column, or a table-level check.
\* complete = COMPLETE format with unexpected_index_column_names =
\* ["__record_id__"]; otherwise the default SUMMARY format.
GXResult(cols, rows, exp_type, kwargs, complete) ==
    LET bad == SelectIdx([k \in 1..Len(rows) |-> Unexpected(exp_type, rows[k].v)], 1)
        miss == SelectIdx([k \in 1..Len(rows) |-> Missing(exp_type, rows[k].v)], 1)
        items == [k \in 1..Len(bad) |->
                     IF complete THEN DictItem("__record_id__", rows[bad[k]].rid)
                     ELSE IntItem(bad[k] - 1)]
    IN  CASE exp_type \in {InSet, NotNull} ->
                [NoVR EXCEPT
                    !.success = (bad = <<>>),
                    !.keys = {"element_count", "unexpected_count",
                              "partial_unexpected_index_list"}
                             \cup (IF exp_type = InSet THEN {"missing_count"} ELSE {})
                             \cup (IF complete THEN {"unexpected_index_list"} ELSE {}),
                    !.element_count = Len(rows),
                    !.unexpected_count = Len(bad),
                    !.missing_count = Len(miss),
                    !.unexpected_index_list = IF complete THEN items ELSE <<>>,
                    !.partial_unexpected_index_list = items]
          [] exp_type = RowCount ->
                [NoVR EXCEPT !.success = (Len(rows) = 1), !.keys = {"observed_value"}]
          [] exp_type = ColList ->
                [NoVR EXCEPT !.success = (cols = kwargs.cols["column_list"].names),
                             !.keys = {"observed_value"}]

\* the library meets a column that the batch does not have
GXColumnMissing(cols, exp_type, kwargs) ==
    /\ exp_type \in {InSet, NotNull}
    /\ ~InSeq(kwargs.cols["column"].names[1], cols)

\* with catch_exceptions the failure comes back as a result without counts
GXCaught == [NoVR EXCEPT !.success = FALSE, !.keys = {}]

\* ------------------------------------------------------- failure samples
NoSample == [isNone |-> TRUE, recs |-> <<>>]
SomeSample(recs) == [isNone |-> FALSE, recs |-> recs]

\* a record of the sample: the value as found in the frame ("raw") or its
\* str() ("str")
RawRec(c) == [col |-> "a", kind |-> "raw", cell |-> c]
StrRec(col, c) == [col |-> col, kind |-> "str", cell |-> c]

\* the index entries the loop of the given validator keeps: an int, or a
\* dict under one of the keys the validator knows
IndexKeys(v) == IF v = "csv" THEN {"index"} ELSE {"index", "__record_id__", "row_id"}

RECURSIVE IndicesFrom(_, _, _)
IndicesFrom(v, items, k) ==
    IF k > Len(items) THEN <<>>
    ELSE (IF ~items[k].isDict \/ items[k].key \in IndexKeys(v)
          THEN <<items[k].idx>> ELSE <<>>)
         \o IndicesFrom(v, items, k + 1)

\* self.df.iloc[sample_indices].to_dict(orient="records") inside try/except:
\* an index out of range fails the whole lookup, which is then passed over.
\* In JSONValidator the chain goes through .fillna(None), which raises
\* ValueError, so the lookup never yields a record there.
IlocRecords(v, d, idx) ==
    IF v = "json" THEN <<>>
    ELSE IF \A k \in 1..Len(idx) : idx[k] \in (0 - Len(d))..(Len(d) - 1)
    THEN [k \in 1..Len(idx) |-> RawRec(d[(idx[k] % Len(d)) + 1])]
    ELSE <<>>

ByIndex(v, d, items) ==
    LET indices == IndicesFrom(v, items, 1)
    IN  IF items # <<>> /\ indices # <<>>
        THEN IlocRecords(v, d, Take(indices, SampleLimit))
        ELSE <<>>

\* kwargs.get("column", "unknown_column")
ColumnOrUnknown(kwargs) ==
    IF HasKey(kwargs, "column") THEN kwargs.cols["column"].names[1] ELSE "unknown_column"

\* what stands for a step of the outer try that raised: the steps after it
\* do not run, and the except clause returns None
Raising == <<[col |-> "", kind |-> "raise", cell |-> ScalarCell(NaN)]>>

\* a value under the key that is not a list (an int, say) cannot be iterated
\* or sliced: TypeError
ListOrRaise(vr, key, found) ==
    IF key \in vr.keys /\ key \in vr.notLists THEN Raising ELSE found

ByValue(values, kwargs) ==
    IF kwargs = KwargsNone
       /\ \E k \in 1..Len(Take(values, SampleLimit)) : ~values[k].isDict
    THEN Raising
    ELSE [k \in 1..Len(Take(values, SampleLimit)) |->
            IF values[k].isDict THEN values[k].rec
            ELSE StrRec(ColumnOrUnknown(kwargs), values[k].cell)]

\* self.df[column_name].dropna().head(5), each value through str()
ColumnFallback(v, d, kwargs) ==
    IF kwargs = KwargsNone THEN Raising
    ELSE IF HasKey(kwargs, "column") /\ InSeq(kwargs.cols["column"].names[1], DfColumns(v, d))
    THEN LET nonNull == SelectIdx([k \in 1..Len(d) |-> ~IsNull(d[k])], 1)
             head == Take(nonNull, SampleLimit)
         IN  [k \in 1..Len(head) |-> StrRec(kwargs.cols["column"].names[1], d[head[k]])]
    ELSE <<>>

\* `if not failed_samples and ...`: a later method runs only while the
\* sample is still empty
OrElse(found, next) == IF found # <<>> THEN found ELSE next

\* return failed_samples if failed_samples else None; except Exception: return None
SampleOrNone(recs) == IF recs # <<>> /\ recs # Raising THEN SomeSample(recs) ELSE NoSample

ExtractFailedRecordsSample(v, d, vr, kwargs) ==
    SampleOrNone(
        OrElse(ListOrRaise(vr, "unexpected_index_list",
                           ByIndex(v, d, Get(vr, "unexpected_index_list", <<>>))),
        OrElse(ListOrRaise(vr, "partial_unexpected_index_list",
                           ByIndex(v, d, Get(vr, "partial_unexpected_index_list", <<>>))),
        OrElse(ListOrRaise(vr, "unexpected_values",
                           ByValue(Get(vr, "unexpected_values", <<>>), kwargs)),
        OrElse(ListOrRaise(vr, "partial_unexpected_values",
                           ByValue(Get(vr, "partial_unexpected_values", <<>>), kwargs)),
               ColumnFallback(v, d, kwargs))))))

\* ------------------------------------------------------------ rule results
RECURSIVE GCD(_, _)
GCD(a, b) == IF b = 0 THEN a ELSE GCD(b, a % b)

\* a float, kept exact as a reduced fraction
Float(num, den) ==
    LET g == GCD(IF num < 0 THEN 0 - num ELSE num, den)
    IN  [num |-> num \div g, den |-> den \div g]

Zero == Float(0, 1)

Msg(kind, text, exp_type, n, notFound, cols) ==
    [kind |-> kind, text |-> text, exp_type |-> exp_type, n |-> n,
     notFound |-> notFound, cols |-> cols]

NoMsg == Msg("None", "", "", 0, FALSE, <<>>)

\* the share of failing records instead of the share of passing ones
SuccessRateOfFailures(total, failed) ==
    IF total # 0 THEN Float(100 * failed, total) ELSE Float(0, 1)

\* 100.0 * (total_records - failed_records) / total_records if total_records else 0.0
SuccessRate(total, failed) ==
    IF total # 0 THEN Float(100 * (total - failed), total) ELSE Zero

\* the check without its `total_records > 0` half
PassedWhenNoFailure(failed, total) == failed = 0

\* passed = failed_records == 0 and total_records > 0
Passed(failed, total) == failed = 0 /\ total > 0

\* JSONValidator, exploded branch: passed = failed_records == 0
PassedExploded(failed) == failed = 0

NoLoc ==
    [expBound |-> FALSE, exp_type |-> "", kwBound |-> FALSE, kwargs |-> NoKwargs,
     vrBound |-> FALSE, vr |-> NoVR]

NoResult ==
    [rule_name |-> "", natural_language_rule |-> "", passed |-> FALSE,
     expectation_type |-> "", kwargs |-> NoKwargs, hasColumns |-> FALSE,
     columns |-> <<>>, total_records |-> 0, failed_records |-> 0,
     success_rate |-> Zero, error_message |-> NoMsg,
     failed_records_sample |-> NoSample]

\* what a try block leaves: ok, or the exception text, the locals, and the
\* values computed before the end of the block
TryOut(ok, e, l, passed, failed, total, rate, msg, sample) ==
    [ok |-> ok, e |-> e, loc |-> l, passed |-> passed, failed |-> failed,
     total |-> total, rate |-> rate, msg |-> msg, sample |-> sample]

TryRaise(e, l) == TryOut(FALSE, e, l, FALSE, 0, 0, Zero, NoMsg, NoSample)

IterRaise(e, l) == [raised |-> TRUE, exc |-> e, result |-> NoResult, loc |-> l]
IterResult(r, l) == [raised |-> FALSE, exc |-> "", result |-> r, loc |-> l]

\* ------------------------------------------------------------ CSVValidator
\* error_message of the normal path
CSVErrorMessage(passed, failed, total, exp_type) ==
    IF passed THEN NoMsg
    ELSE IF failed # 0 THEN Msg("records failed", "", exp_type, failed, FALSE, <<>>)
    ELSE IF total # 0 THEN Msg("No records to validate", "", exp_type, 0, FALSE, <<>>)
    ELSE Msg("reported failure despite 0 failed records", "", exp_type, 0, FALSE, <<>>)

\* no message, whatever the outcome
NoErrorMessage(passed, exp_type) == NoMsg

JSONErrorMessage(passed, exp_type) ==
    IF passed THEN NoMsg ELSE Msg("Validation failed for", "", exp_type, 0, FALSE, <<>>)

\* the end of the try block, from passed / failed_records / total_records on
Concluded(v, d, l, vr, passed, failed, total, rate) ==
    TryOut(TRUE, "", [l EXCEPT !.vrBound = TRUE, !.vr = vr], passed, failed, total, rate,
           IF v = "csv" THEN CSVErrorMessage(passed, failed, total, l.exp_type)
           ELSE JSONErrorMessage(passed, l.exp_type),
           IF ~passed /\ failed > 0
           THEN ExtractFailedRecordsSample(v, d, vr, l.kwargs) ELSE NoSample)

Counted(v, d, l, vr, failed, total) ==
    Concluded(v, d, l, vr, Passed(failed, total), failed, total, SuccessRate(total, failed))

\* the counts read from the validation result, and what follows from them
Evaluated(v, d, l, vr) ==
    Counted(v, d, l, vr,
            Get(vr, "unexpected_count", 0) + Get(vr, "missing_count", 0),
            Get(vr, "element_count", Len(d)))

\* self.batch.validate(expectation) where it returns
CSVValidate(d, l) ==
    IF GXColumnMissing(DfColumns("csv", d), l.exp_type, l.kwargs) THEN GXCaught
    ELSE GXResult(DfColumns("csv", d), Frame(d), l.exp_type, l.kwargs, FALSE)

\* the try block from the class lookup on, exp_type and kwargs being bound
CSVTryBound(d, l, catches) ==
    IF l.exp_type \notin Supported THEN TryRaise("no attribute", l)
    ELSE IF GXColumnMissing(DfColumns("csv", d), l.exp_type, l.kwargs) /\ ~catches
    THEN TryRaise("column does not exist", l)
    ELSE Evaluated("csv", d, l, CSVValidate(d, l))

BindExpType(l, rule) == [l EXCEPT !.expBound = TRUE, !.exp_type = rule.exp_type]
BindKwargs(l, rule) == [l EXCEPT !.kwBound = TRUE, !.kwargs = rule.kwargs]

\* the try block of CSVValidator.validate_rules
CSVTry(d, rule, l, catches) ==
    IF rule.shape = "no_ger" THEN TryRaise("'great_expectations_rule'", l)
    ELSE IF rule.shape = "no_kwargs" THEN TryRaise("'kwargs'", BindExpType(l, rule))
    ELSE CSVTryBound(d, BindKwargs(BindExpType(l, rule), rule), catches)

\* the except block: the message, with the column diagnostics
CSVColumnNotFound(d, kwargs) ==
    /\ HasKey(kwargs, "column")
    /\ ~InSeq(kwargs.cols["column"].names[1], DfColumns("csv", d))

CSVExceptMessage(d, e, kwargs) ==
    Msg("Exception during validation", e, "", 0, CSVColumnNotFound(d, kwargs),
        IF CSVColumnNotFound(d, kwargs) THEN DfColumns("csv", d) ELSE <<>>)

\* the except block of CSVValidator.validate_rules
CSVExcept(d, t) ==
    IF t.ok THEN t
    ELSE TryOut(FALSE, t.e, t.loc, FALSE, Len(d), Len(d), Zero,
                CSVExceptMessage(d, t.e, t.loc.kwargs), NoSample)

\* columns = ...; rule_result = {...}; results.append(rule_result)
CSVRuleResult(rule, out) ==
    IF ~out.loc.expBound THEN IterRaise("UnboundLocalError: exp_type", out.loc)
    ELSE IF rule.shape # "ok" THEN IterRaise("KeyError", out.loc)
    ELSE IterResult(
            [rule_name |-> rule.name,
             natural_language_rule |-> rule.natural_language_rule,
             passed |-> out.passed,
             expectation_type |-> out.loc.exp_type,
             kwargs |-> rule.kwargs,
             hasColumns |-> TRUE,
             columns |-> ExtractColumnsFromKwargs(out.loc.kwargs),
             total_records |-> out.total,
             failed_records |-> out.failed,
             success_rate |-> out.rate,
             error_message |-> out.msg,
             failed_records_sample |-> out.sample], out.loc)

CSVAfterTry(d, rule, t) ==
    IF ~t.ok /\ ~t.loc.kwBound THEN IterRaise("UnboundLocalError: kwargs", t.loc)
    ELSE CSVRuleResult(rule, CSVExcept(d, t))

\* one iteration of the loop of CSVValidator.validate_rules
CSVIter(d, rule, l, catches) == CSVAfterTry(d, rule, CSVTry(d, rule, l, catches))

\* ----------------------------------------------------------- JSONValidator
\* df_to_validate[column] raises KeyError for a name the frame does not
\* have, None (no 'column' in kwargs) included
JSONColumnAbsent(d, kwargs) ==
    \/ ~HasKey(kwargs, "column")
    \/ ~InSeq(kwargs.cols["column"].names[1], DfColumns("json", d))

KeyErrorText(kwargs) ==
    IF HasKey(kwargs, "column") THEN "'" \o kwargs.cols["column"].names[1] \o "'"
    ELSE "None"

\* the column holds a list in at least one record
HoldsList(d) == \E k \in 1..Len(d) : d[k].isList

\* record_ids = [item["__record_id__"] for item in ... if "__record_id__" in item]
\* failed_ids = set(record_ids)
FailedIds(unexpected_index_list) ==
    {unexpected_index_list[k].idx :
        k \in {j \in 1..Len(unexpected_index_list) :
                  unexpected_index_list[j].key = "__record_id__"}}

ExplodedCounted(d, l, vr, failed, total) ==
    Concluded("json", d, l, vr, PassedExploded(failed), failed, total,
              IF total > 0 THEN Float(100 * (total - failed), total) ELSE Zero)

\* the exploded branch: failures are counted per original record
JSONExploded(d, l, vr) ==
    ExplodedCounted(d, l, vr,
                    Cardinality(FailedIds(Get(vr, "unexpected_index_list", <<>>))),
                    Len(d))

\* the try block from the column lookup on, exp_type and kwargs being bound
JSONTryBound(d, l) ==
    IF JSONColumnAbsent(d, l.kwargs) THEN TryRaise(KeyErrorText(l.kwargs), l)
    ELSE IF l.exp_type \notin Supported THEN TryRaise("no attribute", l)
    ELSE IF HoldsList(d)
    THEN JSONExploded(d, l, GXResult(DfColumns("json", d) \o <<"__record_id__">>,
                                     Explode(d), l.exp_type, l.kwargs, TRUE))
    ELSE Evaluated("json", d, l,
                   GXResult(DfColumns("json", d), Frame(d), l.exp_type, l.kwargs, FALSE))

\* the try block of JSONValidator.validate_rules
JSONTry(d, rule, l) ==
    IF rule.shape = "no_ger" THEN TryRaise("'great_expectations_rule'", l)
    ELSE IF rule.shape = "no_kwargs" THEN TryRaise("'kwargs'", BindExpType(l, rule))
    ELSE JSONTryBound(d, BindKwargs(BindExpType(l, rule), rule))

\* ------------------------------------------------------------ Python values
\* a Python value: its type, an int or text payload, and for containers the
\* keys and the items.  An object carries what its to_dict() or its __dict__
\* gives as its one item.
Py(kind, n, s, keys, items) ==
    [kind |-> kind, n |-> n, s |-> s, keys |-> keys, items |-> items]

PyNone == Py("NoneType", 0, "", <<>>, <<>>)
PyBool(b) == Py("bool", IF b THEN 1 ELSE 0, "", <<>>, <<>>)
PyInt(n) == Py("int", n, "", <<>>, <<>>)
PyStr(s) == Py("str", 0, s, <<>>, <<>>)
\* a float, "nan" and "inf" being the non-finite ones
PyFloat(s) == Py("float", 0, s, <<>>, <<>>)
\* numpy scalars; the floating ones are np.float64, a subclass of float
NpFloating(s) == Py("np.floating", 0, s, <<>>, <<>>)
NpInteger(n) == Py("np.integer", n, "", <<>>, <<>>)
PyList(items) == Py("list", 0, "", <<>>, items)
PyDict(keys, items) == Py("dict", 0, "", keys, items)
\* pd.DataFrame / pd.Series
PdFrame == Py("DataFrame", 0, "", <<>>, <<>>)
\* a value json cannot encode, without to_dict and without __dict__
PySet == Py("set", 0, "", <<>>, <<>>)
WithToDict(d) == Py("has to_dict", 0, "", <<>>, <<d>>)
WithDict(d) == Py("has __dict__", 0, "", <<>>, <<d>>)
\* an exception on its way out of the expression that holds it
PyRaise(e) == Py("raise", 0, e, <<>>, <<>>)

\* result.get(key, default)
DictGet(d, key, default) ==
    IF \E k \in 1..Len(d.keys) : d.keys[k] = key
    THEN d.items[CHOOSE k \in 1..Len(d.keys) : d.keys[k] = key]
    ELSE default

RECURSIVE Raises(_)
Raises(v) ==
    \/ v.kind = "raise"
    \/ v.kind \in {"list", "dict"} /\ \E k \in 1..Len(v.items) : Raises(v.items[k])

RECURSIVE JsonDumps(_)
\* json.dumps(v) returns: allow_nan is on, so nan and inf are written out
JsonDumps(v) ==
    \/ v.kind \in {"NoneType", "bool", "int", "str", "float", "np.floating"}
    \/ v.kind \in {"list", "dict"} /\ \A k \in 1..Len(v.items) : JsonDumps(v.items[k])

RECURSIVE HasNonFinite(_)
\* a NaN or an infinity somewhere in the value
HasNonFinite(v) ==
    \/ v.kind \in {"float", "np.floating"} /\ v.s \in {"nan", "inf"}
    \/ v.kind \in {"list", "dict"} /\ \E k \in 1..Len(v.items) : HasNonFinite(v.items[k])

\* ------------------------------------------------------------ BaseValidator
RECURSIVE EnsureJsonSerializable(_)
EnsureJsonSerializable(obj) ==
    CASE obj.kind = "DataFrame" -> PyRaise("ValueError: Must specify a fill 'value' or 'method'")
      [] obj.kind = "np.floating" /\ obj.s = "nan" -> PyNone
      [] obj.kind = "np.integer" -> PyInt(obj.n)
      [] obj.kind = "np.floating" -> PyFloat(obj.s)
      [] obj.kind = "has to_dict" -> obj.items[1]
      [] obj.kind = "has __dict__" -> obj.items[1]
      [] obj.kind = "list" ->
            PyList([k \in 1..Len(obj.items) |-> EnsureJsonSerializable(obj.items[k])])
      [] obj.kind = "dict" ->
            PyDict(obj.keys, [k \in 1..Len(obj.items) |-> EnsureJsonSerializable(obj.items[k])])
      [] obj.kind \in {"int", "float", "str", "bool", "NoneType"} -> obj
      [] OTHER -> PyStr("str(obj)")

\* _clean_validation_result, one value of a record of the sample
CleanRecordValue(v) ==
    CASE v.kind = "DataFrame" -> EnsureJsonSerializable(v)
      [] v.kind = "np.floating" /\ v.s = "nan" -> PyNone
      [] v.kind = "np.floating" -> PyFloat(v.s)
      [] v.kind = "np.integer" -> PyInt(v.n)
      [] v.kind = "has to_dict" -> v.items[1]
      [] OTHER -> v

\* _clean_validation_result, one entry of failed_records_sample
CleanSampleRecord(record) ==
    IF record.kind = "dict"
    THEN PyDict(record.keys, [k \in 1..Len(record.items) |-> CleanRecordValue(record.items[k])])
    ELSE PyStr("str(record)")

\* _clean_validation_result, one item of the result
CleanItem(key, value) ==
    IF key = "failed_records_sample" /\ value.kind # "NoneType"
    THEN PyList([k \in 1..Len(value.items) |-> CleanSampleRecord(value.items[k])])
    ELSE EnsureJsonSerializable(value)

\* cleaned_result, the loop over result.items()
CleanedResult(result) ==
    PyDict(result.keys, [k \in 1..Len(result.keys) |-> CleanItem(result.keys[k], result.items[k])])

\* safe_result, built when json.dumps(cleaned_result) fails
SafeResult(cleaned_result) ==
    PyDict(<<"rule_name", "natural_language_rule", "passed", "expectation_type", "kwargs",
             "columns", "total_records", "failed_records", "success_rate",
             "error_message", "failed_records_sample">>,
           <<DictGet(cleaned_result, "rule_name", PyStr("Unknown")),
             DictGet(cleaned_result, "natural_language_rule", PyStr("")),
             DictGet(cleaned_result, "passed", PyBool(FALSE)),
             DictGet(cleaned_result, "expectation_type", PyStr("")),
             DictGet(cleaned_result, "kwargs", PyDict(<<>>, <<>>)),
             DictGet(cleaned_result, "columns", PyList(<<>>)),
             DictGet(cleaned_result, "total_records", PyInt(0)),
             DictGet(cleaned_result, "failed_records", PyInt(0)),
             DictGet(cleaned_result, "success_rate", PyFloat("0.0")),
             DictGet(cleaned_result, "error_message", PyStr("Serialization error")),
             PyNone>>)

\* what a call leaves: the exception that escaped it, or the value returned
NoCall == [fn |-> ""]
NoReturn == [raised |-> FALSE, exc |-> "", how |-> "", value |-> PyNone]
Returned(value, how) == [raised |-> FALSE, exc |-> "", how |-> how, value |-> value]
Escaped(e) == [raised |-> TRUE, exc |-> e, how |-> "", value |-> PyNone]

\* the try around json.dumps(cleaned_result), and the two returns
DumpedOrSafe(cleaned_result) ==
    IF Raises(cleaned_result) THEN Escaped("ValueError")
    ELSE IF JsonDumps(cleaned_result) THEN Returned(cleaned_result, "cleaned")
    ELSE Returned(SafeResult(cleaned_result), "safe")

\* BaseValidator._clean_validation_result on any result dict
CleanValidationResultOf(result) == DumpedOrSafe(CleanedResult(result))

\* a record of this model's samples as the Python value it stands for: a str,
\* or the cell as DataFrame.to_dict gave it (NaN a float nan)
RecValue(rec) ==
    IF rec.kind = "str" THEN PyStr("str(value)")
    ELSE IF rec.cell.isList THEN PyList([k \in 1..Len(rec.cell.elems) |-> PyInt(rec.cell.elems[k])])
    ELSE IF rec.cell.elems[1] = NaN THEN PyFloat("nan")
    ELSE PyInt(rec.cell.elems[1])

\* BaseValidator._clean_validation_result on a record of the sample: a value
\* the cleaning turns into None becomes a null, every other value of this
\* model is kept as it is
CleanRecord(rec) ==
    IF CleanRecordValue(RecValue(rec)).kind = "NoneType"
    THEN [rec EXCEPT !.kind = "null"] ELSE rec

CleanSample(sample) ==
    IF sample.isNone THEN NoSample
    ELSE SomeSample([k \in 1..Len(sample.recs) |-> CleanRecord(sample.recs[k])])

CleanValidationResult(r) ==
    [r EXCEPT !.failed_records_sample = CleanSample(r.failed_records_sample)]

\* the except block of JSONValidator.validate_rules, past the two reads of
\* validation_result and kwargs
JSONExcept(d, t) ==
    IF t.ok THEN t
    ELSE TryOut(FALSE, t.e, t.loc, FALSE, Len(d), Len(d), Zero,
                Msg("str(e)", t.e, "", 0, FALSE, <<>>),
                IF Len(d) > 0
                THEN ExtractFailedRecordsSample("json", d, t.loc.vr, t.loc.kwargs)
                ELSE NoSample)

\* rule_result = {...}; results.append(self._clean_validation_result(rule_result))
JSONRuleResult(rule, out) ==
    IF ~out.loc.expBound THEN IterRaise("UnboundLocalError: exp_type", out.loc)
    ELSE IF ~out.loc.kwBound THEN IterRaise("UnboundLocalError: kwargs", out.loc)
    ELSE IterResult(CleanValidationResult(
            [rule_name |-> rule.name,
             natural_language_rule |-> rule.natural_language_rule,
             passed |-> out.passed,
             expectation_type |-> out.loc.exp_type,
             kwargs |-> out.loc.kwargs,
             hasColumns |-> FALSE,
             columns |-> <<>>,
             total_records |-> out.total,
             failed_records |-> out.failed,
             success_rate |-> out.rate,
             error_message |-> out.msg,
             failed_records_sample |-> out.sample]), out.loc)

JSONAfterTry(d, rule, t) ==
    IF ~t.ok /\ Len(d) > 0 /\ ~t.loc.vrBound
    THEN IterRaise("UnboundLocalError: validation_result", t.loc)
    ELSE IF ~t.ok /\ Len(d) > 0 /\ ~t.loc.kwBound
    THEN IterRaise("UnboundLocalError: kwargs", t.loc)
    ELSE JSONRuleResult(rule, JSONExcept(d, t))

\* one iteration of the loop of JSONValidator.validate_rules
JSONIter(d, rule, l) == JSONAfterTry(d, rule, JSONTry(d, rule, l))

\* ------------------------------------------------------------ validate_data
\* ValidationRuleResult(..., columns=result.get("columns", []), ...)
ToValidationRuleResult(r) ==
    [r EXCEPT !.hasColumns = TRUE,
              !.columns = IF r.hasColumns THEN r.columns ELSE <<>>]

RECURSIVE SumFrom(_, _)
SumFrom(s, k) == IF k > Len(s) THEN 0 ELSE s[k] + SumFrom(s, k + 1)

\* sum(1 for result in results if result.get("passed", False))
PassedRules(rs) == SumFrom([k \in 1..Len(rs) |-> IF rs[k].passed THEN 1 ELSE 0], 1)

\* sum(result.get("total_records", 0) for result in results)
TotalRecordsProcessed(rs) == SumFrom([k \in 1..Len(rs) |-> rs[k].total_records], 1)

\* sum(result.get("failed_records", 0) for result in results)
TotalFailedRecords(rs) == SumFrom([k \in 1..Len(rs) |-> rs[k].failed_records], 1)

FloatAdd(a, b) == Float(a.num * b.den + b.num * a.den, a.den * b.den)

RECURSIVE RateSumFrom(_, _)
RateSumFrom(rs, k) ==
    IF k > Len(rs) THEN Float(0, 1)
    ELSE FloatAdd(rs[k].success_rate, RateSumFrom(rs, k + 1))

\* the mean of the per-rule success rates
AverageOfSuccessRates(rs) ==
    IF Len(rs) > 0 THEN Float(RateSumFrom(rs, 1).num, RateSumFrom(rs, 1).den * Len(rs))
    ELSE Float(0, 1)

\* 100.0 * (total_records_processed - total_failed_records) / total_records_processed
\* if total_records_processed > 0 else 0.0
OverallSuccessRate(rs) ==
    IF TotalRecordsProcessed(rs) > 0
    THEN Float(100 * (TotalRecordsProcessed(rs) - TotalFailedRecords(rs)),
               TotalRecordsProcessed(rs))
    ELSE Zero

\* "Failed" as soon as one rule failed
StatusFailedOnAnyFailure(failed_rules, passed_rules) ==
    IF failed_rules = 0 THEN "Passed" ELSE "Failed"

\* validation_status
ValidationStatus(failed_rules, passed_rules) ==
    IF failed_rules = 0 THEN "Passed"
    ELSE IF passed_rules = 0 THEN "Failed"
    ELSE "Imperfect"

NoSummary ==
    [total_rules |-> 0, passed_rules |-> 0, failed_rules |-> 0,
     overall_success_rate |-> Zero, total_records_processed |-> 0,
     total_failed_records |-> 0]

\* ValidationSummary(...)
Summary(rs) ==
    [total_rules |-> Len(rs),
     passed_rules |-> PassedRules(rs),
     failed_rules |-> Len(rs) - PassedRules(rs),
     overall_success_rate |-> OverallSuccessRate(rs),
     total_records_processed |-> TotalRecordsProcessed(rs),
     total_failed_records |-> TotalFailedRecords(rs)]

NoResponse ==
    [status |-> "none", detail |-> "", path |-> "", results |-> <<>>,
     summary |-> NoSummary, validation_status |-> ""]

\* raise HTTPException(500, detail=f"Validation error: {str(e)}")
ValidationError(e) == [NoResponse EXCEPT !.status = "500", !.detail = e]

\* ValidationResponse(summary=summary, results=validation_results,
\* status=validation_status), from fresh ("fresh") or cached results
ValidationResponse(rs, path) ==
    [status |-> "200", detail |-> "", path |-> path,
     results |-> [k \in 1..Len(rs) |-> ToValidationRuleResult(rs[k])],
     summary |-> Summary(rs),
     validation_status |-> ValidationStatus(Len(rs) - PassedRules(rs), PassedRules(rs))]

\* dataset.validations / dataset.last_validated_at
\* a timestamp column: None, or a reading of the clock
Never == [isNone |-> TRUE, at |-> 0]
At(t) == [isNone |-> FALSE, at |-> t]

NoValidations == [validations |-> <<>>, last_validated_at |-> Never]

\* the tables of the database: rules, datasets, suggested_rules; `now` is
\* the clock that stamps created_at / updated_at / deleted_at, one tick per
\* commit that writes to these tables
NoDb == [rules |-> <<>>, datasets |-> <<>>, suggested |-> <<>>, now |-> 0]

Projects == {1, 2}

\* the project_id of the validate_data requests
TheProject == 1

\* a row of the rules table, its rule columns (name, natural_language_rule,
\* great_expectations_rule) held as the rule dict the validators read
RuleRow(id, project_id, rule, at) ==
    [id |-> id, project_id |-> project_id, rule |-> rule, is_deleted |-> FALSE,
     deleted_at |-> Never, created_at |-> at, updated_at |-> at]

\* select(...).where(Rule.project_id == project_id), the rows as rule dicts
RulesQuery(rows, project_id) ==
    [k \in 1..Len(SelectSeq(rows, LAMBDA r : r.project_id = project_id)) |->
        SelectSeq(rows, LAMBDA r : r.project_id = project_id)[k].rule]

\* a database whose rules table holds the given rules for the project
DbOf(rs) == [NoDb EXCEPT !.rules = [k \in 1..Len(rs) |-> RuleRow(k, TheProject, rs[k], 0)]]

\* if dataset_project.validations and dataset_project.last_validated_at: ...
\* if len(current_rules) == len(dataset_project.validations)
CacheHit(d, current_rules) ==
    /\ d.validations # <<>> /\ ~d.last_validated_at.isNone
    /\ Len(current_rules) = Len(d.validations)

\* what one validate_data call did about Slack: project.slack_channel and
\* dataset_project.is_sample as the call read them, the reports it handed
\* to slack_service, and whether sending raised
NoSlack == [slack_channel |-> FALSE, is_sample |-> FALSE, sent |-> <<>>, failed |-> FALSE]

\* a call that sends nothing
NotNotified(slack_channel, is_sample) ==
    [NoSlack EXCEPT !.slack_channel = slack_channel, !.is_sample = is_sample]

\* a report for every call, linked channel or not, sample or not
NotifyAlways(slack_channel, is_sample) == TRUE

\* if project.slack_channel and not dataset_project.is_sample
ShouldNotify(slack_channel, is_sample) == slack_channel /\ ~is_sample

\* _send_slack_notification: the report goes to slack_service once; what
\* sending raises is logged and dropped
SendSlackNotification(slack_channel, is_sample, report, raises) ==
    [slack_channel |-> slack_channel, is_sample |-> is_sample,
     sent |-> <<report>>, failed |-> raises]

\* the Slack step of a fresh validation whose results were committed
SlackAfterCommit(slack_channel, is_sample, report, raises) ==
    IF ShouldNotify(slack_channel, is_sample)
    THEN SendSlackNotification(slack_channel, is_sample, report, raises)
    ELSE NotNotified(slack_channel, is_sample)

\* ------------------------------------------------------------ state machine
TypeOK ==
    /\ validator \in {"csv", "json"}
    /\ gxCatches \in BOOLEAN
    /\ i \in 1..(MaxRules + 1)
    /\ pc \in {"loop", "returned", "raised", "done"}
    /\ Len(results) <= Len(rules)

Init ==
    /\ validator \in {"csv", "json"}
    /\ df \in (IF validator = "csv" THEN CSVTables ELSE JSONTables)
    \* catch_exceptions only matters where the library is handed an absent
    \* column, which JSONValidator never does
    /\ gxCatches \in (IF validator = "csv" THEN BOOLEAN ELSE {TRUE})
    /\ rules \in SeqsUpTo(RuleSet, MaxRules)
    /\ i = 1
    /\ loc = NoLoc
    /\ results = <<>>
    /\ pc = "loop"
    /\ exc = ""
    /\ response = NoResponse
    /\ call = NoCall
    /\ ret = NoReturn
    /\ dataset = NoValidations
    /\ db = DbOf(rules)
    /\ slack = NoSlack

Step(o) ==
    /\ loc' = o.loc
    /\ IF o.raised
       THEN /\ pc' = "raised"
            /\ exc' = o.exc
            /\ UNCHANGED <<i, results>>
       ELSE /\ results' = Append(results, o.result)
            /\ i' = i + 1
            /\ UNCHANGED <<pc, exc>>
    /\ UNCHANGED <<validator, df, gxCatches, rules, response, call, ret, dataset, db, slack>>

\* CSVValidator.validate_rules, one turn of `for rule in rules`
CSVRuleStep ==
    /\ pc = "loop"
    /\ validator = "csv"
    /\ i <= Len(rules)
    /\ Step(CSVIter(df, rules[i], loc, gxCatches))

\* JSONValidator.validate_rules, one turn of `for rule in rules`
JSONRuleStep ==
    /\ pc = "loop"
    /\ validator = "json"
    /\ i <= Len(rules)
    /\ Step(JSONIter(df, rules[i], loc))

\* return results
ReturnResults ==
    /\ pc = "loop"
    /\ i > Len(rules)
    /\ pc' = "returned"
    /\ UNCHANGED <<validator, df, gxCatches, rules, i, loc, results, exc, response, call, ret, dataset, db, slack>>

\* validate_data after validator.validate_rules(rules): an exception, and
\* the HTTPException raised for an empty result list, are turned into a 500
\* by the enclosing handler; otherwise the results are stored on the dataset
\* and the report is built from them
ValidateDataRespond ==
    /\ pc \in {"returned", "raised"}
    /\ pc' = "done"
    /\ response' =
          IF pc = "raised" THEN ValidationError(exc)
          ELSE IF results = <<>> THEN ValidationError("404: No validation results found")
          ELSE ValidationResponse(results, "fresh")
    /\ dataset' =
          IF pc = "returned" /\ results # <<>>
          THEN [validations |-> results, last_validated_at |-> At(db.now)]
          ELSE dataset
    /\ \E slack_channel \in BOOLEAN, is_sample \in BOOLEAN, raises \in BOOLEAN :
          slack' = IF pc = "returned" /\ results # <<>>
                   THEN SlackAfterCommit(slack_channel, is_sample, results, raises)
                   ELSE NotNotified(slack_channel, is_sample)
    /\ UNCHANGED <<validator, df, gxCatches, rules, i, loc, results, exc, call, ret, db>>

\* a later validate_data request for the same dataset: with validations
\* stored and as many rules as stored results, the report is built from the
\* stored results
ValidateDataCached ==
    /\ pc = "done"
    /\ CacheHit(dataset, RulesQuery(db.rules, TheProject))
    /\ response' = ValidationResponse(dataset.validations, "cached")
    /\ \E slack_channel \in BOOLEAN, is_sample \in BOOLEAN :
          slack' = NotNotified(slack_channel, is_sample)
    /\ UNCHANGED <<validator, df, gxCatches, rules, i, loc, results, pc, exc, call, ret,
                   dataset, db>>

\* a later validate_data request that finds no stored results, or another
\* number of rules than stored results: the rules are read again and a new
\* validator runs them
ValidateDataAgain ==
    /\ pc = "done"
    /\ ~CacheHit(dataset, RulesQuery(db.rules, TheProject))
    /\ rules' = RulesQuery(db.rules, TheProject)
    /\ i' = 1 /\ loc' = NoLoc /\ results' = <<>> /\ pc' = "loop" /\ exc' = ""
    /\ response' = NoResponse /\ slack' = NoSlack
    /\ UNCHANGED <<validator, df, gxCatches, call, ret, dataset, db>>

Next ==
    \/ CSVRuleStep \/ JSONRuleStep \/ ReturnResults
    \/ ValidateDataRespond \/ ValidateDataCached \/ ValidateDataAgain

Spec == Init /\ [][Next]_vars

\* ------------------------------------ _clean_validation_result on its own
\* values found in a record of the sample or in kwargs
PyValues ==
    {PyNone, PyInt(1), PyStr("x"), PyFloat("1.5"), PyFloat("nan"), PyFloat("inf"),
     NpFloating("1.5"), NpFloating("nan"), NpFloating("inf"), NpInteger(1),
     PySet, PdFrame, WithToDict(PyDict(<<"k">>, <<PyInt(1)>>)),
     WithDict(PyDict(<<"k">>, <<PySet>>)), PyList(<<NpFloating("nan")>>)}

KwargsValues ==
    {PyList(<<PyInt(1)>>), PySet, WithDict(PyDict(<<"k">>, <<PySet>>)), PdFrame,
     NpInteger(1), PyFloat("nan")}

SampleValues ==
    {PyNone, PyList(<<PyStr("x")>>)}
        \cup {PyList(<<PyDict(<<"a">>, <<v>>)>>) : v \in PyValues}

\* the error_message item of a rule result: absent, None or a text
ErrorMessageItems == {<<>>, <<PyNone>>, <<PyStr("Validation failed for X")>>}

\* a rule_result as validate_rules builds it
RuleResultDict(msg, value_set, sample) ==
    PyDict(<<"rule_name", "natural_language_rule", "passed", "expectation_type",
             "kwargs", "total_records", "failed_records", "success_rate">>
             \o (IF msg = <<>> THEN <<>> ELSE <<"error_message">>)
             \o <<"failed_records_sample">>,
           <<PyStr("r"), PyStr("nl"), PyBool(FALSE), PyStr("X"),
             PyDict(<<"column", "value_set">>, <<PyStr("a"), value_set>>),
             PyInt(2), PyInt(1), PyFloat("50.0")>>
             \o msg \o <<sample>>)

NoValidationRun ==
    /\ validator = "csv" /\ df = <<>> /\ gxCatches = TRUE /\ rules = <<>> /\ i = 1
    /\ loc = NoLoc /\ results = <<>> /\ pc = "call" /\ exc = "" /\ response = NoResponse
    /\ dataset = NoValidations /\ slack = NoSlack

Idle == NoValidationRun /\ db = NoDb

CleanInit ==
    /\ Idle
    /\ call \in {[fn |-> "_clean_validation_result", result |-> RuleResultDict(m, k, s)] :
                    m \in ErrorMessageItems, k \in KwargsValues, s \in SampleValues}
    /\ ret = NoReturn

\* self._clean_validation_result(rule_result)
CleanCall ==
    /\ pc = "call"
    /\ call.fn = "_clean_validation_result"
    /\ pc' = "called"
    /\ ret' = CleanValidationResultOf(call.result)
    /\ UNCHANGED <<validator, df, gxCatches, rules, i, loc, results, exc, response, call, dataset, db, slack>>

CleanNext == CleanCall

CleanSpec == CleanInit /\ [][CleanNext]_vars

\* ------------------------------------------- the report of validate_data
\* a result of validate_rules by its counts; row_condition in a rule's kwargs
\* makes element_count, and so total_records, differ from rule to rule
CountedResult(total, failed) ==
    [NoResult EXCEPT !.rule_name = RInSetA.name,
                     !.natural_language_rule = RInSetA.natural_language_rule,
                     !.expectation_type = InSet,
                     !.kwargs = RInSetA.kwargs,
                     !.hasColumns = TRUE,
                     !.columns = ExtractColumnsFromKwargs(RInSetA.kwargs),
                     !.passed = Passed(failed, total),
                     !.total_records = total, !.failed_records = failed,
                     !.success_rate = SuccessRate(total, failed),
                     !.error_message = CSVErrorMessage(Passed(failed, total), failed, total, InSet)]

CountedResults == UNION {{CountedResult(t, f) : f \in 0..t} : t \in 0..MaxRecords}

AggInit ==
    /\ validator = "csv" /\ df = <<>> /\ gxCatches = TRUE
    /\ results \in SeqsUpTo(CountedResults, MaxRules)
    /\ rules = [k \in 1..Len(results) |-> RInSetA]
    /\ i = Len(rules) + 1
    /\ loc = NoLoc /\ pc = "returned" /\ exc = "" /\ response = NoResponse
    /\ call = NoCall /\ ret = NoReturn /\ dataset = NoValidations
    /\ db = DbOf(rules) /\ slack = NoSlack

AggNext == ValidateDataRespond \/ ValidateDataCached

AggSpec == AggInit /\ [][AggNext]_vars

\* --------------------------------------------------------- ValidatorFactory
\* a path is the sequence of its characters
DotCsv == <<".", "c", "s", "v">>
DotJson == <<".", "j", "s", "o", "n">>

Paths ==
    {<<"d">> \o DotCsv, <<"d">> \o DotJson, <<"d", ".", "C", "S", "V">>,
     <<"d", ".", "t", "x", "t">>, <<"d">> \o DotCsv \o DotJson,
     <<"d">> \o DotJson \o DotCsv, <<"d">> \o DotJson \o <<"l">>,
     <<"c", "s", "v">>, DotCsv, <<>>, <<"d">> \o DotCsv \o <<"x">>,
     <<"j", "s", "o", "n">>}

\* what the file at the path holds
FileContents == {"table", "list of objects", "object", "empty", "missing"}

\* the suffix occurs somewhere in s
Contains(s, suffix) ==
    \E k \in 0..Len(s) :
        k + Len(suffix) <= Len(s) /\ SubSeq(s, k + 1, k + Len(suffix)) = suffix

\* s.endswith(suffix)
EndsWith(s, suffix) ==
    /\ Len(s) >= Len(suffix)
    /\ SubSeq(s, Len(s) - Len(suffix) + 1, Len(s)) = suffix

\* load_file(file_path, file_type): what it returns, or the exception
LoadFile(content, file_type) ==
    CASE content = "missing" -> "FileNotFoundError"
      [] file_type = "csv" /\ content = "empty" -> "EmptyDataError"
      [] file_type = "csv" -> "DataFrame"
      [] file_type = "json" /\ content = "list of objects" -> "list"
      [] file_type = "json" /\ content = "object" -> "dict"
      [] file_type = "json" -> "JSONDecodeError"
      [] OTHER -> "ValueError: Unsupported file type"

\* create_validator from the load on
Created(file_type, data) ==
    CASE data \notin {"DataFrame", "list", "dict"} -> Escaped(data)
      [] file_type = "csv" /\ data # "DataFrame" ->
            Escaped("ValueError: CSV validator requires a pandas DataFrame")
      [] file_type = "csv" -> Returned(PyNone, "CSVValidator")
      [] file_type = "json" /\ data # "list" ->
            Escaped("ValueError: JSON validator requires a list of dictionaries")
      [] file_type = "json" -> Returned(PyNone, "JSONValidator")
      [] OTHER -> Escaped("ValueError: Unsupported data type")

FactoryInit ==
    /\ Idle
    /\ call \in [fn : {"create_validator"}, data_got_path : Paths, content : FileContents,
                 file_type : {""}, loads : {0}]
    /\ ret = NoReturn

\* the if / elif / else on the end of the path
ChooseFileType ==
    /\ pc = "call"
    /\ call.fn = "create_validator"
    /\ IF EndsWith(call.data_got_path, DotCsv)
       THEN /\ call' = [call EXCEPT !.file_type = "csv"]
            /\ pc' = "load"
            /\ ret' = ret
       ELSE IF EndsWith(call.data_got_path, DotJson)
       THEN /\ call' = [call EXCEPT !.file_type = "json"]
            /\ pc' = "load"
            /\ ret' = ret
       ELSE /\ ret' = Escaped("ValueError: Unsupported data type")
            /\ pc' = "called"
            /\ call' = call
    /\ UNCHANGED <<validator, df, gxCatches, rules, i, loc, results, exc, response, dataset, db, slack>>

\* data = load_file(data_got_path, file_type), the type checks and the return
LoadAndCreate ==
    /\ pc = "load"
    /\ call.fn = "create_validator"
    /\ call' = [call EXCEPT !.loads = call.loads + 1]
    /\ ret' = Created(call.file_type, LoadFile(call.content, call.file_type))
    /\ pc' = "called"
    /\ UNCHANGED <<validator, df, gxCatches, rules, i, loc, results, exc, response, dataset, db, slack>>

FactoryNext == ChooseFileType \/ LoadAndCreate

FactorySpec == FactoryInit /\ [][FactoryNext]_vars

\* ------------------------------- _extract_failed_records_sample on its own
\* one more row than a sample may hold
LongTable == [k \in 1..(SampleLimit + 1) |-> ScalarCell(1)]

SampledTables(v) ==
    {<<>>, <<ScalarCell(NaN)>>, <<ScalarCell(1), ScalarCell(2)>>, LongTable}
        \cup (IF v = "json" THEN {<<ListCell(<<1, 2>>)>>} ELSE {})

\* a value of the validation result: a list, or something that is not one
AList(items) == [isList |-> TRUE, items |-> items]
NotAList == [isList |-> FALSE, items |-> <<>>]

IndexLists ==
    {AList(<<>>), AList(<<IntItem(0)>>), AList(<<IntItem(7)>>),
     AList([k \in 1..(SampleLimit + 1) |-> IntItem(0)]),
     AList(<<DictItem("__record_id__", 0), DictItem("__record_id__", 0)>>),
     AList(<<DictItem("other", 0)>>), NotAList}

\* an entry of a value list: a dict, taken as the record, or a plain value
DictValue(rec) == [isDict |-> TRUE, rec |-> rec, cell |-> rec.cell]
PlainValue(c) == [isDict |-> FALSE, rec |-> RawRec(c), cell |-> c]

ValueLists ==
    {AList(<<>>), AList(<<DictValue(RawRec(ScalarCell(2)))>>),
     AList([k \in 1..(SampleLimit + 1) |-> PlainValue(ScalarCell(2))]), NotAList}

\* validation_result.result with the four lists as given
ResultWith(uil, puil, uv, puv) ==
    [NoVR EXCEPT
        !.keys = {"unexpected_index_list", "partial_unexpected_index_list",
                  "unexpected_values", "partial_unexpected_values"},
        !.notLists = (IF uil.isList THEN {} ELSE {"unexpected_index_list"})
                     \cup (IF puil.isList THEN {} ELSE {"partial_unexpected_index_list"})
                     \cup (IF uv.isList THEN {} ELSE {"unexpected_values"})
                     \cup (IF puv.isList THEN {} ELSE {"partial_unexpected_values"}),
        !.unexpected_index_list = uil.items,
        !.partial_unexpected_index_list = puil.items,
        !.unexpected_values = uv.items,
        !.partial_unexpected_values = puv.items]

SampledKwargs == {RInSetA.kwargs, RInSetZZ.kwargs, RRowCount.kwargs, KwargsNone}

ExtractInit ==
    /\ Idle
    /\ \E v \in {"csv", "json"} :
         call \in {[fn |-> "_extract_failed_records_sample", v |-> v, d |-> d,
                    vr |-> ResultWith(uil, puil, uv, puv), kwargs |-> kw] :
                      d \in SampledTables(v), uil \in IndexLists, puil \in IndexLists,
                      uv \in ValueLists, puv \in ValueLists, kw \in SampledKwargs}
    /\ ret = NoReturn

\* self._extract_failed_records_sample(validation_result, kwargs)
ExtractCall ==
    /\ pc = "call"
    /\ call.fn = "_extract_failed_records_sample"
    /\ pc' = "called"
    /\ ret' = Returned(ExtractFailedRecordsSample(call.v, call.d, call.vr, call.kwargs), "")
    /\ UNCHANGED <<validator, df, gxCatches, rules, i, loc, results, exc, response, call, dataset, db, slack>>

ExtractNext == ExtractCall

ExtractSpec == ExtractInit /\ [][ExtractNext]_vars


\* ------------------------------------------------------ the rules endpoints
\* bound on the clock: the commits that write to the tables
MaxWrites == 2

HttpResponse(st, detail, body) == [status |-> st, detail |-> detail, body |-> body]

Req(fn, project_id, rule_id, body) ==
    [fn |-> fn, project_id |-> project_id, rule_id |-> rule_id, body |-> body]

\* what a handler leaves: its response and the tables
Outcome(r, database) == [ret |-> r, db |-> database]

\* raise HTTPException(status_code=404, detail="Rule not found")
RuleNotFound == HttpResponse("404", "Rule not found", <<>>)

\* result.scalar_one_or_none() over the rows a mask selects: the index of
\* the row, 0 for None
RowIndex(rows, matches) ==
    IF \E k \in DOMAIN rows : matches[k] THEN CHOOSE k \in DOMAIN rows : matches[k] ELSE 0

\* the lookup without its project_id condition
RuleById(rows, rule_id, project_id) ==
    RowIndex(rows, [k \in DOMAIN rows |-> rows[k].id = rule_id])

\* select(Rule).where(Rule.id == rule_id, Rule.project_id == project_id)
RuleOfProject(rows, rule_id, project_id) ==
    RowIndex(rows, [k \in DOMAIN rows |->
                        rows[k].id = rule_id /\ rows[k].project_id = project_id])

\* ... .where(Rule.id == rule_id, Rule.project_id == project_id,
\*            Rule.is_deleted.is_(False))
LiveRuleOfProject(rows, rule_id, project_id) ==
    RowIndex(rows, [k \in DOMAIN rows |->
                        /\ rows[k].id = rule_id /\ rows[k].project_id = project_id
                        /\ ~rows[k].is_deleted])

\* get_rule_by_id
GetRuleByIdOutcome(database, k) ==
    IF k = 0 THEN Outcome(RuleNotFound, database)
    ELSE Outcome(HttpResponse("200", "", <<database.rules[k]>>), database)

\* a RuleUpdate body: name and great_expectations_rule, "" and <<>> for None
RuleUpdate(name, ger) == [name |-> name, great_expectations_rule |-> ger]

\* update_rule, the simple field updates of the default update_flag
UpdatedRule(old, body) ==
    [old EXCEPT
        !.name = IF body.name # "" THEN body.name ELSE @,
        !.shape = IF body.great_expectations_rule # <<>>
                  THEN body.great_expectations_rule[1].shape ELSE @,
        !.exp_type = IF body.great_expectations_rule # <<>>
                     THEN body.great_expectations_rule[1].exp_type ELSE @,
        !.kwargs = IF body.great_expectations_rule # <<>>
                   THEN body.great_expectations_rule[1].kwargs ELSE @]

UpdatedRow(row, body, at) ==
    [row EXCEPT !.rule = UpdatedRule(@, body), !.updated_at = at]

\* update_rule
UpdateRuleOutcome(database, k, body) ==
    IF k = 0 THEN Outcome(RuleNotFound, database)
    ELSE Outcome(HttpResponse("200", "", <<UpdatedRow(database.rules[k], body, database.now + 1)>>),
                 [database EXCEPT !.rules[k] = UpdatedRow(@, body, database.now + 1),
                                  !.now = @ + 1])

\* delete_rule: the soft delete
DeleteRuleOutcome(database, k) ==
    IF k = 0 THEN Outcome(RuleNotFound, database)
    ELSE Outcome(HttpResponse("204", "", <<>>),
                 [database EXCEPT !.rules[k].is_deleted = TRUE,
                                  !.rules[k].deleted_at = At(database.now + 1),
                                  !.rules[k].updated_at = database.now + 1,
                                  !.now = @ + 1])

\* a row of the datasets table; the file at file_path is held by its type
\* and its records
DatasetRow(id, project_id, is_sample, file) ==
    [id |-> id, project_id |-> project_id, is_sample |-> is_sample, file |-> file]

CsvFile(d) == [v |-> "csv", df |-> d]

\* select(Dataset).where(Dataset.project_id == project_id)
DatasetsOfProject(rows, project_id) ==
    SelectSeq(rows, LAMBDA r : r.project_id = project_id)

\* select(Dataset).where(Dataset.project_id == project_id,
\*                       Dataset.is_sample.is_(True))
SampleOf(rows, project_id) ==
    SelectSeq(rows, LAMBDA r : r.project_id = project_id /\ r.is_sample)

\* a row of the suggested_rules table; `rules` is the list its JSON text holds
SuggestedRow(id, project_id, rs, at) ==
    [id |-> id, project_id |-> project_id, rules |-> rs, created_at |-> at]

\* ... .where(SuggestedRules.project_id == project_id)
\*     .order_by(SuggestedRules.created_at.desc()).limit(1)
LatestSuggested(rows, project_id) ==
    RowIndex(rows, [k \in DOMAIN rows |->
                        /\ rows[k].project_id = project_id
                        /\ \A j \in DOMAIN rows :
                              rows[j].project_id = project_id =>
                                  rows[j].created_at <= rows[k].created_at])

\* the list with only the first rule of that name taken out
WithoutFirstNamed(rs, rule_name) ==
    IF \E k \in DOMAIN rs : rs[k].name = rule_name
    THEN LET f == CHOOSE k \in DOMAIN rs :
                     rs[k].name = rule_name /\ \A j \in 1..(k - 1) : rs[j].name # rule_name
         IN  [j \in 1..(Len(rs) - 1) |-> IF j < f THEN rs[j] ELSE rs[j + 1]]
    ELSE rs

\* [rule for rule in rules if rule.get("name") != rule_name]
WithoutName(rs, rule_name) == SelectSeq(rs, LAMBDA r : r.name # rule_name)

\* what remove_rule_from_suggested_rules returns, and the tables after it
Removed(value, database) == [value |-> value, db |-> database]

RemoveNamed(database, k, kept) ==
    IF Len(kept) = Len(database.suggested[k].rules) THEN Removed(FALSE, database)
    ELSE Removed(TRUE, [database EXCEPT !.suggested[k].rules = kept, !.now = @ + 1])

\* remove_rule_from_suggested_rules(project_id, rule_name, db)
RemoveRuleFromSuggestedRules(database, project_id, rule_name) ==
    IF LatestSuggested(database.suggested, project_id) = 0 THEN Removed(FALSE, database)
    ELSE RemoveNamed(database, LatestSuggested(database.suggested, project_id),
                     WithoutName(database.suggested[
                                     LatestSuggested(database.suggested, project_id)].rules,
                                 rule_name))

\* validator.validate_rules([rule]) by a new validator over the file
ValidateOne(file, rule, catches) ==
    IF file.v = "csv" THEN CSVIter(file.df, rule, NoLoc, catches)
    ELSE JSONIter(file.df, rule, NoLoc)

\* db.add(db_rule); await db.commit()
StoredRule(database, project_id, rule) ==
    [database EXCEPT
        !.rules = Append(@, RuleRow(Len(database.rules) + 1, project_id, rule,
                                    database.now + 1)),
        !.now = @ + 1]

\* db.add, commit, refresh, then the rule leaves the suggested rules
AddRule(database, project_id, rule) ==
    Outcome(HttpResponse("201", "", <<StoredRule(database, project_id, rule).rules[
                                         Len(database.rules) + 1]>>),
            RemoveRuleFromSuggestedRules(StoredRule(database, project_id, rule),
                                         project_id, rule.name).db)

\* create_rule_validation without is_forced, from the validation results on:
\* an exception is answered with 500; the rule is stored when the first
\* result has passed; a rule that did not pass is returned without having
\* been stored, and has no id for the response model
CreateChecked(database, project_id, rule, out) ==
    IF out.raised THEN Outcome(HttpResponse("500", "Validation error", <<>>), database)
    ELSE IF out.result.passed THEN AddRule(database, project_id, rule)
    ELSE Outcome(HttpResponse("500", "response validation", <<>>), database)

\* no request is half way
Quiescent == pc \in {"call", "done"}

\* a request that is answered with r and leaves the tables as database
Request(c, o) ==
    /\ call' = c
    /\ ret' = o.ret
    /\ db' = o.db
    /\ response' = NoResponse
    /\ UNCHANGED <<validator, df, gxCatches, rules, i, loc, results, pc, exc, dataset, slack>>

RuleIds == 1..(Len(db.rules) + 1)

GetRuleById ==
    /\ Quiescent
    /\ \E project_id \in Projects, rule_id \in RuleIds :
          Request(Req("get_rule_by_id", project_id, rule_id, <<>>),
                  GetRuleByIdOutcome(db, RuleOfProject(db.rules, rule_id, project_id)))

\* the rule dicts sent in request bodies
SentRules == {RInSetA, RNotNullA}

RuleUpdates == {RuleUpdate("renamed", <<>>), RuleUpdate("", <<RNotNullA>>)}

UpdateRule ==
    /\ Quiescent
    /\ db.now < MaxWrites
    /\ \E project_id \in Projects, rule_id \in RuleIds, body \in RuleUpdates :
          Request(Req("update_rule", project_id, rule_id, body),
                  UpdateRuleOutcome(db, RuleOfProject(db.rules, rule_id, project_id), body))

DeleteRule ==
    /\ Quiescent
    /\ db.now < MaxWrites
    /\ \E project_id \in Projects, rule_id \in RuleIds :
          Request(Req("delete_rule", project_id, rule_id, <<>>),
                  DeleteRuleOutcome(db, LiveRuleOfProject(db.rules, rule_id, project_id)))

\* create_rule_validation.  The dataset query has no ORDER BY, so any of the
\* project's datasets may be sample_data_datasets[0]; with no dataset the
\* subscript raises IndexError before the try block.
CreateRuleValidation ==
    /\ Quiescent
    /\ db.now < MaxWrites
    /\ \E project_id \in Projects, rule \in SentRules, is_forced \in BOOLEAN :
          IF is_forced
          THEN Request(Req("create_rule_validation", project_id, 0,
                           [rule |-> rule, is_forced |-> TRUE]),
                       AddRule(db, project_id, rule))
          ELSE IF DatasetsOfProject(db.datasets, project_id) = <<>>
          THEN Request(Req("create_rule_validation", project_id, 0,
                           [rule |-> rule, is_forced |-> FALSE]),
                       Outcome(HttpResponse("500", "IndexError", <<>>), db))
          ELSE \E k \in DOMAIN DatasetsOfProject(db.datasets, project_id) :
                  Request(Req("create_rule_validation", project_id, 0,
                              [rule |-> rule, is_forced |-> FALSE]),
                          CreateChecked(db, project_id, rule,
                              ValidateOne(DatasetsOfProject(db.datasets, project_id)[k].file,
                                          rule, gxCatches)))

\* the files of the datasets: one that satisfies every sent rule, one that
\* fails the in-set rule
PassingFile == CsvFile(<<ScalarCell(1)>>)
FailingFile == CsvFile(<<ScalarCell(2)>>)

\* the datasets of project 1: none, the sample alone, or the sample after a
\* dataset that is not the sample
DatasetTables ==
    {<<>>}
    \cup {<<DatasetRow(1, 1, TRUE, f)>> : f \in {PassingFile, FailingFile}}
    \cup {<<DatasetRow(1, 1, FALSE, PassingFile), DatasetRow(2, 1, TRUE, FailingFile)>>,
          <<DatasetRow(1, 1, FALSE, FailingFile), DatasetRow(2, 1, TRUE, PassingFile)>>}

RulesInit ==
    /\ NoValidationRun
    /\ \E ds \in DatasetTables :
          db = [rules |-> <<RuleRow(1, 1, RInSetA, 0), RuleRow(2, 2, RNotNullA, 0)>>,
                datasets |-> ds,
                suggested |-> <<SuggestedRow(1, 1, <<RInSetA, RNotNullA, RInSetA>>, 0)>>,
                now |-> 0]
    /\ call = NoCall
    /\ ret = NoReturn

RulesNext == GetRuleById \/ UpdateRule \/ DeleteRule \/ CreateRuleValidation

RulesSpec == RulesInit /\ [][RulesNext]_vars

\* ------------------------------------------------- app/core/rule_generator.py
\* what a function returns: None, a bool, a list of rule dicts or a
\* SuggestedRules row, and whether generate_rules_async was awaited
Result(kind, value, generated) == [kind |-> kind, value |-> value, generated |-> generated]

ReturnNone(generated) == Result("None", <<>>, generated)

\* the rules used when nothing was generated
FallbackRules ==
    <<Rule("ok", "Data Completeness Check", NotNull,
           [column |-> StrVal("required_field")], ""),
      Rule("ok", "Data Type Validation", "expect_column_values_to_be_of_type",
           [column |-> StrVal("data_column")], "type_=string")>>

\* great_expectation_functions.json lists the expectations of the library
ValidFunctions == Supported \cup {"expect_column_values_to_be_of_type"}

\* the rule survives the filter on function name and column
KeptRule(rule, columns) ==
    /\ rule.exp_type \in ValidFunctions
    /\ HasKey(rule.kwargs, "column")
    /\ InSeq(rule.kwargs.cols["column"].names[1], columns)

\* if sample_data_columns: ... suggested_rules = filtered_rules
FilterRules(rs, columns) ==
    IF columns = <<>> THEN rs ELSE SelectSeq(rs, LAMBDA r : KeptRule(r, columns))

\* if not suggested_rules: suggested_rules = [the fallback rules]
OrFallback(rs) == IF rs = <<>> THEN FallbackRules ELSE rs

\* db.add(SuggestedRules(project_id=project_id, rules=json.dumps(...))); commit
SavedSuggested(database, project_id, rs) ==
    [database EXCEPT
        !.suggested = Append(@, SuggestedRow(Len(database.suggested) + 1, project_id, rs,
                                             database.now + 1)),
        !.now = @ + 1]

\* the end of generate_and_save_rules_for_project: with a row of suggested
\* rules already there, that row is returned and nothing is saved
SaveUnlessExisting(database, project_id, rs) ==
    IF LatestSuggested(database.suggested, project_id) # 0
    THEN Outcome(Result("SuggestedRules",
                        <<database.suggested[LatestSuggested(database.suggested, project_id)]>>,
                        TRUE),
                 database)
    ELSE Outcome(Result("list", rs, TRUE), SavedSuggested(database, project_id, rs))

\* generate_and_save_rules_for_project from the point where the sample
\* dataset was found
GenerateFromSample(database, project_id, sample, force_regenerate, readable, generated) ==
    IF ~force_regenerate /\ LatestSuggested(database.suggested, project_id) # 0
    THEN Outcome(Result("list",
                        database.suggested[LatestSuggested(database.suggested, project_id)].rules,
                        FALSE),
                 database)
    ELSE IF ~readable THEN Outcome(ReturnNone(FALSE), database)
    ELSE SaveUnlessExisting(database, project_id,
                            FilterRules(OrFallback(generated),
                                        DfColumns(sample.file.v, sample.file.df)))

\* generate_and_save_rules_for_project(project_id, db, force_regenerate);
\* scalar_one_or_none raises for several sample datasets, which the handler
\* of the function turns into None
GenerateAndSaveRulesForProject(database, project_id, force_regenerate, readable, generated) ==
    IF Len(SampleOf(database.datasets, project_id)) # 1
    THEN Outcome(ReturnNone(FALSE), database)
    ELSE GenerateFromSample(database, project_id, SampleOf(database.datasets, project_id)[1],
                            force_regenerate, readable, generated)

\* what generate_rules_async comes back with
GeneratedLists == {<<>>, <<RInSetA, RInSetZZ>>, <<RNotNullA, RBogus, RRowCount>>}

GenerateAndSave ==
    /\ Quiescent
    /\ db.now < MaxWrites
    /\ \E project_id \in Projects, force_regenerate \in BOOLEAN, readable \in BOOLEAN,
          generated \in GeneratedLists :
          Request(Req("generate_and_save_rules_for_project", project_id, 0,
                      [force_regenerate |-> force_regenerate, readable |-> readable,
                       generated |-> generated]),
                  GenerateAndSaveRulesForProject(db, project_id, force_regenerate, readable,
                                                 generated))

RemoveOutcome(removed) == Outcome(Result("bool", removed.value, FALSE), removed.db)

RuleNames == {RInSetA.name, RNotNullA.name, RBogus.name}

RemoveFromSuggested ==
    /\ Quiescent
    /\ db.now < MaxWrites
    /\ \E project_id \in Projects, rule_name \in RuleNames :
          Request(Req("remove_rule_from_suggested_rules", project_id, 0,
                      [rule_name |-> rule_name]),
                  RemoveOutcome(RemoveRuleFromSuggestedRules(db, project_id, rule_name)))

\* the suggested_rules table: empty, one row, or an older and a newer row
SuggestedTables ==
    {<<>>,
     <<SuggestedRow(1, 1, <<RInSetA, RNotNullA, RInSetA>>, 0)>>,
     <<SuggestedRow(1, 2, <<RInSetA>>, 0)>>,
     <<SuggestedRow(1, 1, <<RBogus>>, 0), SuggestedRow(2, 1, <<RNotNullA, RInSetA>>, 1)>>}

SuggestInit ==
    /\ NoValidationRun
    /\ \E ds \in DatasetTables, sg \in SuggestedTables :
          db = [rules |-> <<>>, datasets |-> ds, suggested |-> sg,
                now |-> IF sg = <<>> THEN 0 ELSE sg[Len(sg)].created_at]
    /\ call = NoCall
    /\ ret = NoReturn

SuggestNext == GenerateAndSave \/ RemoveFromSuggested

SuggestSpec == SuggestInit /\ [][SuggestNext]_vars

\* ---------------------------- validate_data between changes of the rules
\* the dataset being validated is the one dataset of the project; requests to
\* the rules endpoints arrive between two validate_data requests
CacheInit ==
    /\ validator = "csv"
    /\ df = <<ScalarCell(2)>>
    /\ gxCatches = TRUE
    /\ rules \in {<<RInSetA>>, <<RInSetA, RNotNullA>>}
    /\ db = [DbOf(rules) EXCEPT
                !.datasets = <<DatasetRow(1, TheProject, FALSE, [v |-> validator, df |-> df])>>]
    /\ i = 1 /\ loc = NoLoc /\ results = <<>> /\ pc = "loop" /\ exc = ""
    /\ response = NoResponse /\ call = NoCall /\ ret = NoReturn
    /\ dataset = NoValidations /\ slack = NoSlack

CacheNext ==
    \/ CSVRuleStep \/ ReturnResults
    \/ ValidateDataRespond \/ ValidateDataCached \/ ValidateDataAgain
    \/ CreateRuleValidation \/ UpdateRule \/ DeleteRule

CacheSpec == CacheInit /\ [][CacheNext]_vars

\* ------------------------------------------------------- with_retries_async
MaxRetries == 4

Delays == {1, 2}

\* what one invocation of func does; asyncio.CancelledError and the like are
\* not subclasses of Exception
FuncOutcomes == {"returns", "raises Exception", "raises BaseException"}

\* the run of one call: the loop variable, what each invocation of func did,
\* the sleeps so far, where the coroutine stands, and how the call ended
\* (`of` is the invocation whose result or exception leaves the call)
RetryRun(attempt, history, slept, at, outcome, of) ==
    [attempt |-> attempt, history |-> history, slept |-> slept, at |-> at,
     outcome |-> outcome, of |-> of]

\* a wait that grows by delay with every attempt
LinearBackoff(delay, attempt) == delay * (attempt + 1)

\* delay * (2**attempt)
Backoff(delay, attempt) == delay * (2 ^ attempt)

\* the try statement of one turn of `for attempt in range(retries)`
Attempted(c, r, o) ==
    IF o = "returns"
    THEN [r EXCEPT !.history = Append(@, o), !.at = "done", !.outcome = "returned",
                   !.of = Len(r.history) + 1]
    ELSE IF o = "raises BaseException" \/ r.attempt = c.retries - 1
    THEN [r EXCEPT !.history = Append(@, o), !.at = "done", !.outcome = "raised",
                   !.of = Len(r.history) + 1]
    ELSE [r EXCEPT !.history = Append(@, o), !.at = "sleep"]

\* await asyncio.sleep(delay * (2**attempt)), then the next turn
Slept(c, r) ==
    [r EXCEPT !.slept = Append(@, Backoff(c.delay, r.attempt)),
              !.attempt = @ + 1, !.at = "try"]

RetryInit ==
    /\ Idle
    /\ \E n \in 1..MaxRetries, d \in Delays, co \in BOOLEAN :
          call = [fn |-> "with_retries_async", retries |-> n, delay |-> d,
                  is_coroutine |-> co]
    /\ ret = RetryRun(0, <<>>, <<>>, "try", "running", 0)

\* func is awaited, directly or through asyncio.to_thread
RetryAttempt ==
    /\ pc = "call"
    /\ call.fn = "with_retries_async"
    /\ ret.at = "try"
    /\ \E o \in FuncOutcomes :
          /\ ret' = Attempted(call, ret, o)
          /\ pc' = IF o = "raises Exception" /\ ret.attempt # call.retries - 1
                   THEN "call" ELSE "called"
    /\ UNCHANGED <<validator, df, gxCatches, rules, i, loc, results, exc, response, call,
                   dataset, db, slack>>

RetrySleep ==
    /\ pc = "call"
    /\ call.fn = "with_retries_async"
    /\ ret.at = "sleep"
    /\ ret' = Slept(call, ret)
    /\ UNCHANGED <<validator, df, gxCatches, rules, i, loc, results, pc, exc, response, call,
                   dataset, db, slack>>

RetryNext == RetryAttempt \/ RetrySleep

\* the event loop resumes the coroutine when func has finished and when the
\* sleep is over
RetrySpec == RetryInit /\ [][RetryNext]_vars /\ WF_vars(RetryNext)

\* ------------------------------------------------- the datasets endpoints
\* Every request has its own session (get_db), so what a handler has read
\* stays as it read it while other requests commit; its own changes reach
\* the table at its commit.
Slots == {1, 2}

DatasetIds == 1..3

\* a request of a slot: the handler, its parameters, where the coroutine
\* stands, the is_sample the session loaded for the dataset, the ids the
\* second select of update_dataset returned, and the answer
DsReq(fn, project_id, dataset_id, is_sample) ==
    [fn |-> fn, project_id |-> project_id, dataset_id |-> dataset_id,
     is_sample |-> is_sample, at |-> "start", seen |-> FALSE, samples |-> {},
     status |-> ""]

Answered(c, st) == [c EXCEPT !.at = "done", !.status = st]

\* select(Dataset).where(Dataset.id == dataset_id), scalar_one_or_none()
DatasetById(rows, dataset_id) ==
    RowIndex(rows, [k \in DOMAIN rows |-> rows[k].id = dataset_id])

\* the ids of result.scalars().all() over the sample query
SampleIds(rows, project_id) ==
    {rows[k].id : k \in {j \in DOMAIN rows : rows[j].project_id = project_id
                                                /\ rows[j].is_sample}}

\* what scalar_one_or_none() does with the rows of the sample query
ExistingSample(rows, project_id) ==
    IF Len(SampleOf(rows, project_id)) > 1 THEN "MultipleResultsFound"
    ELSE IF Len(SampleOf(rows, project_id)) = 1 THEN "one"
    ELSE "None"

\* db.add(Dataset(..., is_sample=..., project_id=...)); await db.commit()
Inserted(rows, id, project_id, is_sample) ==
    Append(rows, DatasetRow(id, project_id, is_sample, PassingFile))

\* the project and sample queries of upload_sample_dataset
UploadChecked(c, rows) ==
    IF ExistingSample(rows, c.project_id) = "MultipleResultsFound" THEN Answered(c, "500")
    ELSE IF ExistingSample(rows, c.project_id) = "one" THEN Answered(c, "400")
    ELSE [c EXCEPT !.at = "read"]

\* the first select of update_dataset and of delete_dataset
Loaded(c, rows, next) ==
    IF DatasetById(rows, c.dataset_id) = 0 THEN Answered(c, "404")
    ELSE [c EXCEPT !.at = next,
                   !.project_id = rows[DatasetById(rows, c.dataset_id)].project_id,
                   !.seen = rows[DatasetById(rows, c.dataset_id)].is_sample]

\* the rows the flush of update_dataset updates: the loaded samples it has
\* set to False, and the dataset itself (updated_at is always assigned)
Flushed(c) == (c.samples \ {c.dataset_id}) \cup {c.dataset_id}

\* an UPDATE that matches no row makes the flush raise StaleDataError
Stale(c, rows) == \E id \in Flushed(c) : DatasetById(rows, id) = 0

\* the value the flush writes to is_sample of row r; an attribute whose
\* value is the loaded one again is not written
FlushedRow(c, r) ==
    IF r.id = c.dataset_id
    THEN IF c.is_sample = "None" \/ (c.is_sample = "True") = c.seen THEN r
         ELSE [r EXCEPT !.is_sample = (c.is_sample = "True")]
    ELSE IF r.id \in c.samples THEN [r EXCEPT !.is_sample = FALSE]
    ELSE r

UpdateCommitted(c, rows) == [k \in DOMAIN rows |-> FlushedRow(c, rows[k])]

\* await db.delete(db_dataset); await db.commit()
DeleteCommitted(c, rows) == SelectSeq(rows, LAMBDA r : r.id # c.dataset_id)

DsRequests ==
    {DsReq("upload_sample_dataset", p, 0, "None") : p \in Projects}
    \cup {DsReq("create_dataset", p, 0, "None") : p \in Projects}
    \cup {DsReq("update_dataset", 0, id, b) : id \in DatasetIds, b \in {"None", "True", "False"}}
    \cup {DsReq("delete_dataset", 0, id, "None") : id \in DatasetIds}

\* the datasets table before the requests: every project with at most one
\* sample
DsTables ==
    {<<>>,
     <<DatasetRow(1, 1, TRUE, PassingFile)>>,
     <<DatasetRow(1, 1, FALSE, PassingFile), DatasetRow(2, 1, TRUE, PassingFile)>>}

DsInit ==
    /\ NoValidationRun
    /\ \E ds \in DsTables : db = [NoDb EXCEPT !.datasets = ds]
    /\ call \in [Slots -> DsRequests]
    /\ ret = [next_id |-> Len(db.datasets) + 1]

\* slot s goes on to c and the table to rows; id is the next value of the
\* id sequence
DsStep(s, c, rows, id) ==
    /\ call' = [call EXCEPT ![s] = c]
    /\ db' = [db EXCEPT !.datasets = rows]
    /\ ret' = [next_id |-> id]
    /\ UNCHANGED <<validator, df, gxCatches, rules, i, loc, results, pc, exc, response,
                   dataset, slack>>

Stands(s, fn, at) == call[s].fn = fn /\ call[s].at = at

UploadCheck ==
    \E s \in Slots :
        /\ Stands(s, "upload_sample_dataset", "start")
        /\ DsStep(s, UploadChecked(call[s], db.datasets), db.datasets, ret.next_id)

UploadCommit ==
    \E s \in Slots :
        /\ Stands(s, "upload_sample_dataset", "read")
        /\ DsStep(s, Answered(call[s], "201"),
                  Inserted(db.datasets, ret.next_id, call[s].project_id, TRUE),
                  ret.next_id + 1)

\* the project query and await file.read()
CreateRead ==
    \E s \in Slots :
        /\ Stands(s, "create_dataset", "start")
        /\ DsStep(s, [call[s] EXCEPT !.at = "read"], db.datasets, ret.next_id)

CreateCommit ==
    \E s \in Slots :
        /\ Stands(s, "create_dataset", "read")
        /\ DsStep(s, Answered(call[s], "201"),
                  Inserted(db.datasets, ret.next_id, call[s].project_id, FALSE),
                  ret.next_id + 1)

UpdateSelect ==
    \E s \in Slots :
        /\ Stands(s, "update_dataset", "start")
        /\ DsStep(s, Loaded(call[s], db.datasets,
                            IF call[s].is_sample = "True" THEN "selected" ELSE "loaded"),
                  db.datasets, ret.next_id)

\* the select of the project's samples, which update_dataset sets to False
UpdateSelectSamples ==
    \E s \in Slots :
        /\ Stands(s, "update_dataset", "selected")
        /\ DsStep(s, [call[s] EXCEPT
                        !.at = "loaded",
                        !.samples = SampleIds(db.datasets, call[s].project_id)],
                  db.datasets, ret.next_id)

UpdateCommit ==
    \E s \in Slots :
        /\ Stands(s, "update_dataset", "loaded")
        /\ IF Stale(call[s], db.datasets)
           THEN DsStep(s, Answered(call[s], "500"), db.datasets, ret.next_id)
           ELSE DsStep(s, Answered(call[s], "200"),
                       UpdateCommitted(call[s], db.datasets), ret.next_id)

DeleteSelect ==
    \E s \in Slots :
        /\ Stands(s, "delete_dataset", "start")
        /\ DsStep(s, Loaded(call[s], db.datasets, "loaded"), db.datasets, ret.next_id)

DeleteCommit ==
    \E s \in Slots :
        /\ Stands(s, "delete_dataset", "loaded")
        /\ DsStep(s, Answered(call[s], "204"), DeleteCommitted(call[s], db.datasets),
                  ret.next_id)

DsNext ==
    \/ UploadCheck \/ UploadCommit \/ CreateRead \/ CreateCommit
    \/ UpdateSelect \/ UpdateSelectSamples \/ UpdateCommit
    \/ DeleteSelect \/ DeleteCommit

DsSpec == DsInit /\ [][DsNext]_vars

\* ================================================================== claims
Finished == pc \in {"returned", "done"}

Produced == 1..Len(results)

\* the rule is one whose evaluation cannot succeed: a malformed dict, an
\* unsupported expectation type, or a 'column' the dataset does not have
AbsentColumnRule(rule) ==
    /\ rule.shape = "ok"
    /\ HasKey(rule.kwargs, "column")
    /\ ~InSeq(rule.kwargs.cols["column"].names[1], DfColumns(validator, df))

Offending(rule) ==
    \/ rule.shape # "ok"
    \/ rule.exp_type \notin Supported
    \/ AbsentColumnRule(rule)

\* C1: validate_rules never raises; an offending rule gets a result with
\* passed = False, failed_records = total_records = row count, success_rate
\* 0.0 and an error_message carrying the exception text, and the rules
\* after it are still evaluated.
\* Stated for lists of well-formed rule dicts over a non-empty dataset,
\* which the claim covers.
C1_ErrorsIsolated ==
    (Len(df) > 0 /\ \A k \in 1..Len(rules) : rules[k].shape = "ok") =>
    /\ pc # "raised"
    /\ \A k \in Produced :
          Offending(rules[k]) =>
             /\ results[k].passed = FALSE
             /\ results[k].failed_records = Len(df)
             /\ results[k].total_records = Len(df)
             /\ results[k].success_rate = Zero
             /\ results[k].error_message.text # ""

\* C2: in every result, passed holds exactly when failed_records = 0 and
\* total_records > 0.
C2_PassedIff ==
    \A k \in Produced :
        results[k].passed <=>
            (results[k].failed_records = 0 /\ results[k].total_records > 0)

\* a run of the exploded JSON path that returned a passing result and,
\* after it, a result of the exception path
C2_Witness ==
    /\ pc = "returned"
    /\ validator = "json"
    /\ HoldsList(df)
    /\ \E k \in Produced : results[k].passed
    /\ \E k \in Produced : /\ ~results[k].passed
                           /\ results[k].failed_records > 0
                           /\ results[k].error_message.kind = "str(e)"

\* C3: in every result, success_rate is 100 * (total - failed) / total when
\* total_records > 0, and 0.0 when total_records = 0.
C3_SuccessRate ==
    \A k \in Produced :
        results[k].success_rate =
            IF results[k].total_records > 0
            THEN Float(100 * (results[k].total_records - results[k].failed_records),
                       results[k].total_records)
            ELSE Zero

\* a CSV run that returned a partly failing result (rate strictly between 0
\* and 100) next to a result of the exception path
C3_Witness ==
    /\ pc = "returned"
    /\ validator = "csv"
    /\ \E k \in Produced : /\ results[k].failed_records > 0
                           /\ results[k].failed_records < results[k].total_records
    /\ \E k \in Produced : results[k].error_message.kind = "Exception during validation"

\* C4: validate_rules returns one result per input rule, in input order,
\* whatever mix of passing, failing and erroring rules the list holds.
\* Stated for lists of well-formed rule dicts, which the claim covers.
C4_OneResultPerRule ==
    (pc # "loop" /\ \A k \in 1..Len(rules) : rules[k].shape = "ok") =>
        /\ pc # "raised"
        /\ Len(results) = Len(rules)
        /\ \A k \in Produced : results[k].rule_name = rules[k].name

\* the rule went through the exploded branch of JSONValidator
ExplodedRule(rule) ==
    /\ validator = "json"
    /\ HoldsList(df)
    /\ rule.shape = "ok"
    /\ rule.exp_type \in Supported
    /\ ~AbsentColumnRule(rule)
    /\ HasKey(rule.kwargs, "column")

\* the original records with at least one element that violates the check
\* (a scalar counts as its own single element)
ViolatingRecords(exp_type) ==
    {k \in 1..Len(df) : \E j \in 1..Len(df[k].elems) : Unexpected(exp_type, df[k].elems[j])}

\* C5: when the target column holds a list, failed_records is the number of
\* original records with at least one violating element and total_records
\* is the number of original records.
C5_PerRecordCount ==
    \A k \in Produced :
        ExplodedRule(rules[k]) =>
            /\ results[k].failed_records = Cardinality(ViolatingRecords(rules[k].exp_type))
            /\ results[k].total_records = Len(df)

\* C6: a rule whose 'column' is absent from the dataset gets, without an
\* exception escaping, a result with passed = False whose error_message has
\* 'not found' and the available columns.
\* Stated for non-empty datasets, which the claim covers.
C6_ColumnNotFound ==
    \A k \in 1..Len(rules) :
        (Len(df) > 0 /\ AbsentColumnRule(rules[k])) =>
            /\ ~(pc = "raised" /\ i = k)
            /\ k \in Produced =>
                  /\ results[k].passed = FALSE
                  /\ results[k].error_message.notFound
                  /\ results[k].error_message.cols = DfColumns(validator, df)

\* the rule evaluated by a call that holds it alone (nothing precedes it)
Alone(rule) ==
    IF validator = "csv" THEN CSVIter(df, rule, NoLoc, gxCatches)
    ELSE JSONIter(df, rule, NoLoc)

\* C7: the result entry of a rule is the same whatever rules precede it in
\* the call, the empty list included.
\* Stated for well-formed rule dicts over a non-empty dataset, which the
\* claim covers.
C7_PrefixIndependent ==
    \A k \in Produced :
        (Len(df) > 0 /\ rules[k].shape = "ok") =>
        /\ ~Alone(rules[k]).raised
        /\ Alone(rules[k]).result = results[k]

\* the fields the two validators are compared on
Compared(r) ==
    <<r.passed, r.total_records, r.failed_records, r.success_rate, r.error_message,
      r.hasColumns, r.columns, r.failed_records_sample>>

\* C8: on a table without list values JSONValidator produces, for any rule,
\* what CSVValidator produces for the same table and rule.
\* Stated for the first rule of a call, where neither validator carries
\* anything over from an earlier rule.
C8_SameAsTabular ==
    (validator = "json" /\ ~HoldsList(df) /\ Len(df) > 0 /\ Len(rules) > 0
        /\ rules[1].shape = "ok") =>
        /\ (pc = "raised" /\ i = 1) => CSVIter(df, rules[1], NoLoc, gxCatches).raised
        /\ 1 \in Produced =>
              /\ ~CSVIter(df, rules[1], NoLoc, gxCatches).raised
              /\ Compared(results[1])
                    = Compared(CSVIter(df, rules[1], NoLoc, gxCatches).result)

\* the names under the known keys, first seen first
ColumnsOf(kwargs) == Dedup(ParamNames(kwargs, 1))

\* C9: every result, and the ValidationRuleResult that validate_data builds
\* from it, has columns equal to the names in the rule's kwargs under column,
\* columns, column_A, column_B, column_list, without duplicates, first seen
\* first; the empty list when there is none.
C9_Columns ==
    /\ \A k \in Produced :
          rules[k].shape = "ok" =>
             ToValidationRuleResult(results[k]).columns = ColumnsOf(rules[k].kwargs)
    /\ \A k \in 1..Len(response.results) :
          rules[k].shape = "ok" =>
             response.results[k].columns = ColumnsOf(rules[k].kwargs)

\* the record would not survive strict JSON encoding: it holds a NaN
NotJsonSafe(rec) == rec.kind = "raw" /\ IsNull(rec.cell)

\* C10: every returned result has been normalized: no NaN (or other
\* non-JSON value) is left in any field.
C10_Normalized ==
    \A k \in Produced :
        \A j \in 1..Len(results[k].failed_records_sample.recs) :
            ~NotJsonSafe(results[k].failed_records_sample.recs[j])

\* --------------------------------------------------------- result cleaning
Called == pc = "called"

\* the input result is fine but for the records of its sample
OnlySampleAtIssue ==
    /\ JsonDumps(DictGet(call.result, "kwargs", PyNone))
    /\ ~HasNonFinite(DictGet(call.result, "kwargs", PyNone))
    /\ DictGet(call.result, "failed_records_sample", PyNone).kind = "list"

\* C11: a NaN or an infinity in a record of failed_records_sample, numpy or
\* plain float, is None after cleaning, and the cleaned result (not an error,
\* not the fallback) is what the call returns.
C11_NonFiniteToNone ==
    (Called /\ OnlySampleAtIssue
        /\ HasNonFinite(DictGet(call.result, "failed_records_sample", PyNone)))
    => /\ ~ret.raised
       /\ ret.how = "cleaned"
       /\ ~HasNonFinite(DictGet(ret.value, "failed_records_sample", PyNone))

ScalarKeys ==
    {"rule_name", "natural_language_rule", "passed", "expectation_type",
     "total_records", "failed_records", "success_rate"}

\* C12: when json.dumps of the cleaned result fails, the result returned has
\* failed_records_sample None, the scalar fields of the cleaned result, and
\* error_message = "Serialization error".
C12_SafeResult ==
    (Called /\ ret.how = "safe")
    => /\ DictGet(ret.value, "failed_records_sample", PyInt(0)) = PyNone
       /\ \A key \in ScalarKeys :
            DictGet(ret.value, key, PyNone) = DictGet(CleanedResult(call.result), key, PyNone)
       /\ DictGet(ret.value, "error_message", PyNone) = PyStr("Serialization error")

\* C13: _clean_validation_result never raises, and json.dumps succeeds on
\* what it returns, whatever the input result holds and wherever.
C13_AlwaysSerializable ==
    Called => (~ret.raised /\ JsonDumps(ret.value))

\* ------------------------------------------------------------- the report
Reported == response.status = "200"

PassedCount == Cardinality({k \in 1..Len(response.results) : response.results[k].passed})

\* C14: on the fresh and on the cached path, total_rules is the number of
\* results, passed_rules the number of passed results, failed_rules their
\* difference; status is "Passed" iff failed_rules = 0, "Failed" iff
\* failed_rules > 0 and passed_rules = 0, "Imperfect" otherwise.
C14_SummaryAndStatus ==
    Reported =>
        /\ response.summary.total_rules = Len(response.results)
        /\ response.summary.passed_rules = PassedCount
        /\ response.summary.failed_rules = Len(response.results) - PassedCount
        /\ response.validation_status \in {"Passed", "Failed", "Imperfect"}
        /\ response.validation_status = "Passed" <=> response.summary.failed_rules = 0
        /\ response.validation_status = "Failed" <=>
              (response.summary.failed_rules > 0 /\ response.summary.passed_rules = 0)

C14_Witness ==
    /\ response.status = "200" /\ response.path = "cached"
    /\ response.validation_status = "Imperfect"
    /\ response.summary.passed_rules > 0 /\ response.summary.failed_rules > 0

\* C15: overall_success_rate is 100 * (P - F) / P with P the sum of
\* total_records and F the sum of failed_records over the results, and 0.0
\* when P = 0.
C15_RecordWeighted ==
    Reported =>
        response.summary.overall_success_rate =
            IF TotalRecordsProcessed(response.results) > 0
            THEN Float(100 * (TotalRecordsProcessed(response.results)
                                - TotalFailedRecords(response.results)),
                       TotalRecordsProcessed(response.results))
            ELSE Float(0, 1)

\* a report whose rate is not the mean of the per-rule rates
C15_Witness ==
    /\ response.status = "200"
    /\ response.summary.total_records_processed > 0
    /\ response.summary.overall_success_rate # AverageOfSuccessRates(response.results)

\* C16: with an empty rule list validate_data answers with a normal report:
\* total_rules = passed_rules = failed_rules = 0, status "Passed", no results.
C16_EmptyRuleList ==
    (pc = "done" /\ rules = <<>>)
    => /\ response.status = "200"
       /\ response.summary.total_rules = 0
       /\ response.summary.passed_rules = 0
       /\ response.summary.failed_rules = 0
       /\ response.validation_status = "Passed"
       /\ response.results = <<>>

\* -------------------------------------------------------------- the factory
\* the path is some prefix followed by the suffix
HasSuffix(path, suffix) ==
    \E k \in 0..Len(path) :
        /\ Len(path) - k = Len(suffix)
        /\ \A j \in 1..Len(suffix) : path[k + j] = suffix[j]

\* C17: create_validator returns a CSVValidator exactly for a path ending in
\* ".csv" and a JSONValidator exactly for a path ending in ".json" whose file
\* holds a list (the file being readable); any other path raises the
\* unsupported-format error with no load; the file is loaded at most once.
C17_DispatchOnExtension ==
    Called =>
        /\ ret.how = "CSVValidator" =>
              HasSuffix(call.data_got_path, DotCsv)
        /\ (HasSuffix(call.data_got_path, DotCsv) /\ call.content \notin {"empty", "missing"})
              => ret.how = "CSVValidator"
        /\ ret.how = "JSONValidator" <=>
              (HasSuffix(call.data_got_path, DotJson) /\ call.content = "list of objects")
        /\ (~HasSuffix(call.data_got_path, DotCsv) /\ ~HasSuffix(call.data_got_path, DotJson))
              => (ret.raised /\ ret.exc = "ValueError: Unsupported data type"
                  /\ call.loads = 0)
        /\ call.loads <= 1

C17_Witness ==
    /\ Called
    /\ call.data_got_path = <<"d">> \o DotCsv \o DotJson
    /\ ret.how = "JSONValidator"
    /\ call.loads = 1

\* --------------------------------------------------------- failure samples
\* C18: whatever the validation result and kwargs hold, the sample
\* extraction of either validator does not raise and returns None or a list
\* of one to five records.
C18_SampleNoneOrUpToFive ==
    Called =>
        /\ ~ret.raised
        /\ \/ ret.value.isNone /\ ret.value.recs = <<>>
           \/ /\ ~ret.value.isNone
              /\ Len(ret.value.recs) \in 1..5
              /\ \A k \in 1..Len(ret.value.recs) : ret.value.recs[k].kind \in {"raw", "str"}

\* more failing entries than a sample holds, cut to five
C18_Witness ==
    /\ Called
    /\ Len(call.vr.unexpected_index_list) = 6
    /\ ~ret.value.isNone /\ Len(ret.value.recs) = 5
    /\ ret.value.recs[1].kind = "raw"

\* an error_message that is a non-empty string
NonEmptyMessage(msg) ==
    /\ msg.kind # "None"
    /\ msg.kind = "str(e)" => msg.text # ""

\* C19: in every result of either validator, passed = True comes with no
\* error_message and no sample, passed = False with a non-empty
\* error_message, and a sample only with passed = False and failed_records > 0.
C19_MessageAndSample ==
    \A k \in Produced :
        /\ results[k].passed =>
              (results[k].error_message = NoMsg /\ results[k].failed_records_sample.isNone)
        /\ ~results[k].passed => NonEmptyMessage(results[k].error_message)
        /\ ~results[k].failed_records_sample.isNone =>
              (~results[k].passed /\ results[k].failed_records > 0
               /\ results[k].failed_records_sample.recs # <<>>)

C19_Witness ==
    /\ Finished
    /\ validator = "json"
    /\ \E k \in Produced : results[k].passed
    /\ \E k \in Produced :
          ~results[k].passed /\ ~results[k].failed_records_sample.isNone

\* the entries of the sample that show the given cell
EntriesOf(sample, c) == {j \in 1..Len(sample.recs) : sample.recs[j].cell = c}

C29_SlackAfterFreshCommit ==
    /\ Len(slack.sent) <= 1
    /\ slack.sent # <<>> =>
          /\ response.status = "200" /\ response.path = "fresh"
          /\ ~dataset.last_validated_at.isNone /\ dataset.validations = slack.sent[1]
          /\ slack.slack_channel /\ ~slack.is_sample
    /\ response.path = "cached" => slack.sent = <<>>
    /\ slack.failed => response = ValidationResponse(results, "fresh")

C29_Witness ==
    /\ pc = "done" /\ slack.sent = <<results>> /\ slack.failed
    /\ response.status = "200" /\ Len(results) = MaxRules

\* the library's own verdict on a rule it evaluates
LibrarySuccess(v, d, rule) ==
    IF v = "json" /\ HoldsList(d)
    THEN GXResult(DfColumns(v, d) \o <<"__record_id__">>, Explode(d),
                  rule.exp_type, rule.kwargs, TRUE).success
    ELSE GXResult(DfColumns(v, d), Frame(d), rule.exp_type, rule.kwargs, FALSE).success

\* the rule reaches the library and comes back with a verdict
ReachesLibrary(rule) ==
    /\ ~Offending(rule)
    /\ validator = "json" => HasKey(rule.kwargs, "column")

\* C30: a rule the library evaluates with success = false has passed =
\* False in its result, table-level checks without counts included.
C30_LibraryFailureNotPassed ==
    Finished =>
    \A k \in Produced :
        (ReachesLibrary(rules[k]) /\ ~LibrarySuccess(validator, df, rules[k]))
            => ~results[k].passed

\* the row the request names by rule_id and project_id, whatever its state
Named(row, c) == row.id = c.rule_id /\ row.project_id = c.project_id

\* C21: once delete_rule has succeeded for a rule, every later
\* get_rule_by_id for it answers 404 'Rule not found', and so does a second
\* delete_rule.
C21_DeletedStaysGone ==
    [][\A k \in DOMAIN db.rules :
          (/\ db.rules[k].is_deleted
           /\ call'.fn \in {"get_rule_by_id", "delete_rule"}
           /\ Named(db.rules[k], call'))
              => ret' = RuleNotFound]_vars

\* the request names a rule of another project
OtherProject(c, rows) ==
    \E k \in DOMAIN rows : rows[k].id = c.rule_id /\ rows[k].project_id # c.project_id

\* C22: get_rule_by_id, update_rule and delete_rule for a rule of another
\* project answer 404 'Rule not found' and leave the rules table as it was.
C22_OtherProjectUntouched ==
    [][(/\ call'.fn \in {"get_rule_by_id", "update_rule", "delete_rule"}
        /\ OtherProject(call', db.rules))
           => (ret' = RuleNotFound /\ db' = db)]_vars

C22_Witness ==
    /\ call.fn = "update_rule" /\ OtherProject(call, db.rules)
    /\ ret = RuleNotFound /\ db.now = MaxWrites - 1

\* the rule passes on the project's sample dataset
PassesOnSample(rows, project_id, rule, catches) ==
    /\ SampleOf(rows, project_id) # <<>>
    /\ ~ValidateOne(SampleOf(rows, project_id)[1].file, rule, catches).raised
    /\ ValidateOne(SampleOf(rows, project_id)[1].file, rule, catches).result.passed

\* C27: create_rule_validation without is_forced stores the rule exactly
\* when it passes on the project's sample dataset; when it does not pass,
\* no rule is stored and the suggested rules stay as they were.
C27_StoredIffPassesOnSample ==
    [][(call'.fn = "create_rule_validation" /\ ~call'.body.is_forced) =>
          /\ (Len(db'.rules) > Len(db.rules))
                <=> PassesOnSample(db.datasets, call'.project_id, call'.body.rule, gxCatches)
          /\ ~PassesOnSample(db.datasets, call'.project_id, call'.body.rule, gxCatches)
                => (db'.rules = db.rules /\ db'.suggested = db.suggested)]_vars

\* the latest row of suggested rules of the project holds a rule of the name
LatestHolds(rows, project_id, rule_name) ==
    /\ LatestSuggested(rows, project_id) # 0
    /\ \E j \in DOMAIN rows[LatestSuggested(rows, project_id)].rules :
          rows[LatestSuggested(rows, project_id)].rules[j].name = rule_name

\* C24: remove_rule_from_suggested_rules returns True exactly when the
\* latest suggested list of the project holds a rule of the given name; then
\* every rule of that name is gone from that list, the others are kept in
\* their order, and the change is committed; otherwise it returns False and
\* the tables are as before, nothing having been committed.
C24_RemoveByName ==
    [][call'.fn = "remove_rule_from_suggested_rules" =>
          IF LatestHolds(db.suggested, call'.project_id, call'.body.rule_name)
          THEN /\ ret'.value = TRUE
               /\ db'.now = db.now + 1
               /\ db'.suggested =
                     [db.suggested EXCEPT
                         ![LatestSuggested(db.suggested, call'.project_id)].rules =
                             SelectSeq(@, LAMBDA r : r.name # call'.body.rule_name)]
               /\ db'.rules = db.rules /\ db'.datasets = db.datasets
          ELSE ret'.value = FALSE /\ db' = db]_vars

C24_Witness ==
    /\ call.fn = "remove_rule_from_suggested_rules" /\ call.body.rule_name = RInSetA.name
    /\ ret.value = TRUE
    /\ db.suggested = <<SuggestedRow(1, 1, <<RBogus>>, 0), SuggestedRow(2, 1, <<RNotNullA>>, 1)>>

\* C25: with a readable sample dataset and suggested rules already stored,
\* generate_and_save_rules_for_project regenerates under force_regenerate =
\* True, stores the new filtered list as the latest one and returns it; under
\* force_regenerate = False it returns the stored list and neither generates
\* nor stores.
C25_ForceRegenerates ==
    [][(/\ call'.fn = "generate_and_save_rules_for_project"
        /\ call'.body.readable
        /\ Len(SampleOf(db.datasets, call'.project_id)) = 1
        /\ LatestSuggested(db.suggested, call'.project_id) # 0) =>
          IF call'.body.force_regenerate
          THEN /\ ret'.generated /\ ret'.kind = "list"
               /\ LatestSuggested(db'.suggested, call'.project_id) # 0
               /\ db'.suggested[LatestSuggested(db'.suggested, call'.project_id)].rules
                     = ret'.value
               /\ db'.suggested # db.suggested
          ELSE /\ ~ret'.generated /\ ret'.kind = "list"
               /\ ret'.value =
                     db.suggested[LatestSuggested(db.suggested, call'.project_id)].rules
               /\ db' = db]_vars

\* the rule of the row was created, deleted, or given another
\* great_expectations_rule than the stored result echoes, after time t
ChangedSince(row, stored, t) ==
    \/ row.created_at > t
    \/ row.is_deleted /\ row.deleted_at.at > t
    \/ /\ row.updated_at > t
       /\ \/ row.rule.exp_type # stored.expectation_type
          \/ row.rule.kwargs # stored.kwargs

ProjectRows == SelectSeq(db.rules, LAMBDA r : r.project_id = TheProject)

\* C26: a validate_data request is answered from the stored results only if
\* no rule of the project was created, deleted, or had its
\* great_expectations_rule modified since the results were stored.
C26_StaleResultsNotServed ==
    response.path = "cached" =>
        /\ Len(ProjectRows) = Len(dataset.validations)
        /\ \A k \in DOMAIN ProjectRows :
              ~ChangedSince(ProjectRows[k], dataset.validations[k],
                            dataset.last_validated_at.at)

\* what holds of a call of with_retries_async at every moment
RetrySafe ==
    /\ Len(ret.history) <= call.retries
    /\ \A k \in 1..(Len(ret.history) - 1) : ret.history[k] = "raises Exception"
    /\ ret.slept = [k \in 1..Len(ret.slept) |-> call.delay * (2 ^ (k - 1))]
    /\ Len(ret.slept) = IF ret.at = "try" THEN Len(ret.history) ELSE Len(ret.history) - 1
    /\ Len(ret.slept) <= call.retries - 1
    /\ (ret.history # <<>> /\ ret.history[Len(ret.history)] = "returns") =>
          (ret.at = "done" /\ ret.outcome = "returned" /\ ret.of = Len(ret.history))
    /\ (/\ Len(ret.history) = call.retries
        /\ \A k \in 1..call.retries : ret.history[k] # "returns") =>
          (ret.at = "done" /\ ret.outcome = "raised" /\ ret.of = call.retries)

\* C28: with_retries_async with retries = n >= 1 invokes func at most n
\* times, returns the result of the first invocation that succeeds, re-raises
\* the n-th exception when all n raise, waits delay * 2^k between attempt k
\* and attempt k + 1 and not after the last one, and comes to an end.
C28_RetriesThenEnds == []RetrySafe /\ <>(ret.at = "done")

C28_Witness ==
    /\ call.fn = "with_retries_async" /\ call.retries = MaxRetries
    /\ ret.at = "done" /\ ret.outcome = "raised" /\ ret.of = MaxRetries
    /\ Len(ret.slept) = MaxRetries - 1
    /\ \A k \in 1..MaxRetries : ret.history[k] = "raises Exception"

AtMostOneSample == \A p \in Projects : Len(SampleOf(db.datasets, p)) <= 1

\* an upload that is answered while its project has a sample
UploadRejected ==
    \A s \in Slots :
        (/\ call[s].fn = "upload_sample_dataset"
         /\ call[s].at # "done" /\ call'[s].at = "done"
         /\ SampleOf(db.datasets, call[s].project_id) # <<>>) =>
           (call'[s].status = "400" /\ db' = db)

\* C23: whatever the interleaving of upload_sample_dataset, create_dataset,
\* update_dataset and delete_dataset requests, no project ever has two
\* datasets with is_sample = True, and an upload for a project that has a
\* sample is answered 400 and stores nothing.
C23_OneSamplePerProject == []AtMostOneSample /\ [][UploadRejected]_vars
====
